---- MODULE Spec2Model ----
(***************************************************************************)
(* Turn orchestration of the honeypot agent: run_agent (agent.py), the     *)
(* session store (session_store.py), the delivery dispatcher (callback.py) *)
(* and the HTTP handlers that drive them (routes.py).                      *)
(*                                                                         *)
(* Everything runs on one asyncio event loop, so the code between two      *)
(* awaits that really suspend is one atomic step.  run_agent suspends at   *)
(* the LLM gather (agent.py:343) and at the pacing sleep (agent.py:420);   *)
(* send_callback suspends at the HTTP POST (callback.py:59).  The store's  *)
(* lock is never held across a suspension, so acquiring it never waits.    *)
(*                                                                         *)
(* Strings are sequences of one-character strings, so that strip(),        *)
(* lower(), startswith() and the digit filters are computed as the code    *)
(* computes them.                                                          *)
(*                                                                         *)
(* main.py is a second application with its own module-level session       *)
(* dictionaries and its own /analyze handler; SpecMain runs it.  Its       *)
(* send_callback calls requests.post on the event loop, so the handler     *)
(* stays inside that call until the POST returns or times out.             *)
(*                                                                         *)
(* SpecPure runs the functions that keep no state (run_single_agent's      *)
(* tiers, score_response, extract_intelligence with its regular            *)
(* expressions, _dedupe_phones): one call per behaviour, its arguments     *)
(* drawn by the initial state and its result computed by one step.         *)
(*                                                                         *)
(* SpecClock gives one turn of run_agent, and one strategy agent of        *)
(* main.py, a clock: time is counted in ticks of 1/2520 s, only awaits     *)
(* take time, and the latencies of the awaited LLM calls are drawn by the  *)
(* initial state.                                                          *)
(*                                                                         *)
(* SpecInspect adds GET /session/{id} (routes.py:67) to the turns of Spec; *)
(* view is the response the last inspection was answered with.             *)
(*                                                                         *)
(* SpecPaced runs the turns of one session one after another on that       *)
(* clock: each turn starts at the session age the earlier turns and the    *)
(* caller's pauses have made.                                              *)
(*                                                                         *)
(* SpecStore runs overlapping turns of two sessions against the            *)
(* SessionStore, with its dict, its lock and the SessionState objects      *)
(* kept apart from their names, and with the note log of each session.     *)
(***************************************************************************)
EXTENDS Integers, Sequences, FiniteSets, TLC

\* ------------------------------------------------------------------ bounds
\* Spec: number of turn requests the caller sends, one at a time
MaxRequests == 10
\* SpecOverlap: number of turn requests the caller sends, overlapping freely
MaxOverlapRequests == 2
\* number of turn requests that may be in flight at once
MaxTasks == 2
\* number of manual POST /session/{id}/callback requests that reach the POST
MaxManual == 1
\* SpecMain: number of requests the caller sends to main.py's /analyze
MaxMainRequests == 3
\* the longest list of phone literals handed to _dedupe_phones
MaxPhones == 2
\* the most labels in the domain of an address token given to extract_intelligence
MaxLabels == 2
\* the most texts in a list of numeric texts given to extract_intelligence
MaxTexts == 2
\* SpecInspect: number of turn requests the caller sends, one at a time
MaxInspectedRequests == 2
\* SpecClock: the longest a generator call takes, in seconds
MaxLatency == 26
\* SpecClock: the highest turn number of a clocked turn
MaxPacingTurn == 10
\* SpecClock: the session ages at the start of a turn, in steps of AgeStep seconds
MaxAgeSteps == 8
AgeStep == 26
\* SpecPure: the highest turn number handed to _generate_fallback_reply
MaxFallbackTurn == 4
\* SpecPaced: number of turns of the session, and the pauses the caller makes
\* between two turns: at most MaxGaps of them, of GapSeconds each
MaxPacedTurns == 10
MaxGaps == 1
GapSeconds == 30
\* SpecStore: number of turn requests the caller sends, to either session
MaxStoreRequests == 3

\* --------------------------------------------------------- program constants
SEND_CALLBACK_AFTER_TURN == 9
MAX_TURNS == 15
PACING_END_TURN == 9
SMART_PACING_ENABLED == TRUE
DefaultConfidence == 75

SessionIds == {"s1"}
NoSession == [none |-> TRUE]

\* ------------------------------------------------------------ string helpers
Digits == {"0", "1", "2", "3", "4", "5", "6", "7", "8", "9"}
UpperChars == <<"A", "B", "C", "D", "E", "F", "G", "H", "I", "J", "K", "L", "M",
                "N", "O", "P", "Q", "R", "S", "T", "U", "V", "W", "X", "Y", "Z">>
LowerChars == <<"a", "b", "c", "d", "e", "f", "g", "h", "i", "j", "k", "l", "m",
                "n", "o", "p", "q", "r", "s", "t", "u", "v", "w", "x", "y", "z">>

\* str.lower() on one character
LowerChar(c) ==
    IF \E i \in 1..26 : UpperChars[i] = c
    THEN LowerChars[CHOOSE i \in 1..26 : UpperChars[i] = c]
    ELSE c

\* str.lower()
Lower(s) == [i \in 1..Len(s) |-> LowerChar(s[i])]

IsSpace(c) == c \in {" ", "\n", "\t"}

RECURSIVE LStrip(_)
LStrip(s) == IF s # <<>> /\ IsSpace(Head(s)) THEN LStrip(Tail(s)) ELSE s

RECURSIVE RStrip(_)
RStrip(s) ==
    IF s # <<>> /\ IsSpace(s[Len(s)]) THEN RStrip(SubSeq(s, 1, Len(s) - 1)) ELSE s

\* str.strip()
Strip(s) == RStrip(LStrip(s))

\* str.startswith(prefix)
StartsWith(s, prefix) ==
    Len(s) >= Len(prefix) /\ SubSeq(s, 1, Len(prefix)) = prefix

\* `sub in s` on strings
Contains(s, sub) ==
    \E i \in 1..(Len(s) - Len(sub) + 1) : SubSeq(s, i, i + Len(sub) - 1) = sub

\* re.sub(r'\D', '', s)
OnlyDigits(s) == SelectSeq(s, LAMBDA c : c \in Digits)

\* s[-n:]
LastN(s, n) == IF Len(s) <= n THEN s ELSE SubSeq(s, Len(s) - n + 1, Len(s))

\* max(x, y) and min(x, y)
MaxOf(x, y) == IF x >= y THEN x ELSE y
MinOf(x, y) == IF x <= y THEN x ELSE y

\* ------------------------------------------------------------- deduplication
RECURSIVE DedupeFrom(_, _, _)
DedupeFrom(items, seen, result) ==
    IF items = <<>> THEN result
    ELSE LET norm == Strip(Head(items)) IN
         IF norm # <<>> /\ Lower(norm) \notin seen
         THEN DedupeFrom(Tail(items), seen \cup {Lower(norm)}, Append(result, norm))
         ELSE DedupeFrom(Tail(items), seen, result)

\* agent._dedupe: order-preserving, case-insensitive on the stripped literal
Dedupe(items) == DedupeFrom(items, {}, <<>>)

\* extractor._normalize_phone: the trailing 10 digits
NormalizePhone(phone) ==
    LET digits == OnlyDigits(phone) IN
    IF Len(digits) >= 10 THEN LastN(digits, 10) ELSE digits

\* the dict `seen` of _dedupe_phones is a list of (norm, orig) pairs in
\* insertion order; assigning to an existing key keeps the key's position
RECURSIVE DedupePhonesFrom(_, _)
DedupePhonesFrom(phones, seen) ==
    IF phones = <<>> THEN seen
    ELSE LET phone == Head(phones)
             norm == NormalizePhone(phone)
             at == {i \in 1..Len(seen) : seen[i].norm = norm}
         IN
         IF norm = <<>> THEN DedupePhonesFrom(Tail(phones), seen)
         ELSE IF at = {}
         THEN DedupePhonesFrom(Tail(phones),
                               Append(seen, [norm |-> norm, orig |-> Strip(phone)]))
         ELSE LET i == CHOOSE j \in at : TRUE IN
              IF Len(phone) > Len(seen[i].orig)
              THEN DedupePhonesFrom(Tail(phones),
                                    [seen EXCEPT ![i].orig = Strip(phone)])
              ELSE DedupePhonesFrom(Tail(phones), seen)

\* extractor._dedupe_phones
DedupePhones(phones) ==
    LET seen == DedupePhonesFrom(phones, <<>>) IN
    [i \in 1..Len(seen) |-> seen[i].orig]

\* ------------------------------------------- extractor.py: the patterns
\* A pattern is a sequence of items: a character class repeated between min
\* and max times (max -1: no upper limit), the word boundary \b, and the
\* lookahead (?!\.[a-zA-Z]).  Every repetition is greedy and gives back one
\* character at a time when the rest of the pattern fails, as in re.
Letters == {UpperChars[i] : i \in 1..26} \cup {LowerChars[i] : i \in 1..26}
Alnum == Letters \cup Digits
WordChars == Alnum \cup {"_"}

Rep(set, min, max) == [kind |-> "class", set |-> set, min |-> min, max |-> max]
Many(set, min) == Rep(set, min, 0 - 1)
Lit(c) == Rep({c}, 1, 1)
WordBoundary == [kind |-> "boundary", set |-> {}, min |-> 0, max |-> 0]
NotDotLetter == [kind |-> "lookahead", set |-> {}, min |-> 0, max |-> 0]

\* [\s\-]? and \d{n,m}
Sep == Rep({" ", "\n", "\t", "-"}, 0, 1)
D(n, m) == Rep(Digits, n, m)

\* how many characters of the class follow from pos on, at most limit
RECURSIVE RunLength(_, _, _, _)
RunLength(text, pos, set, limit) ==
    IF limit = 0 \/ pos > Len(text) THEN 0
    ELSE IF text[pos] \notin set THEN 0
    ELSE 1 + RunLength(text, pos + 1, set, limit - 1)

\* \b holds before the character at pos
AtBoundary(text, pos) ==
    (pos > 1 /\ text[pos - 1] \in WordChars) # (pos <= Len(text) /\ text[pos] \in WordChars)

\* the position after the match of the items that starts at pos, 0 if none
RECURSIVE MatchEnd(_, _, _)
RECURSIVE TryCount(_, _, _, _)
MatchEnd(items, text, pos) ==
    IF items = <<>> THEN pos
    ELSE LET item == Head(items) IN
         CASE item.kind = "class" ->
                 TryCount(items, text, pos, RunLength(text, pos, item.set, item.max))
           [] item.kind = "boundary" ->
                 IF AtBoundary(text, pos) THEN MatchEnd(Tail(items), text, pos) ELSE 0
           [] OTHER ->
                 IF pos + 1 <= Len(text) /\ text[pos] = "." /\ text[pos + 1] \in Letters
                 THEN 0 ELSE MatchEnd(Tail(items), text, pos)
TryCount(items, text, pos, count) ==
    IF count < Head(items).min THEN 0
    ELSE LET end == MatchEnd(Tail(items), text, pos + count) IN
         IF end # 0 THEN end ELSE TryCount(items, text, pos, count - 1)

\* re.findall(pat, text) for a pattern without groups
RECURSIVE FindAllFrom(_, _, _, _)
FindAllFrom(items, text, pos, found) ==
    IF pos > Len(text) THEN found
    ELSE LET end == MatchEnd(items, text, pos) IN
         IF end > pos
         THEN FindAllFrom(items, text, end, Append(found, SubSeq(text, pos, end - 1)))
         ELSE FindAllFrom(items, text, pos + 1, found)

\* for pat in PATTERNS: found += re.findall(pat, full_text)
RECURSIVE FindAll(_, _)
FindAll(patterns, text) ==
    IF patterns = <<>> THEN <<>>
    ELSE FindAllFrom(Head(patterns), text, 1, <<>>) \o FindAll(Tail(patterns), text)

PHONE_PATTERNS ==
    << <<Lit("+"), Lit("9"), Lit("1"), Sep, D(5, 5), Sep, D(5, 5)>>,
       <<WordBoundary, Lit("9"), Lit("1"), Sep, D(5, 5), Sep, D(5, 5), WordBoundary>>,
       <<WordBoundary, Lit("0"), D(10, 10), WordBoundary>>,
       <<WordBoundary, Rep({"6", "7", "8", "9"}, 1, 1), D(9, 9), WordBoundary>>,
       <<Lit("+"), D(1, 3), Sep, Rep({"("}, 0, 1), D(1, 4), Rep({")"}, 0, 1), Sep,
         D(3, 5), Sep, D(4, 6)>> >>
BANK_ACCOUNT_PATTERNS == << <<WordBoundary, D(9, 18), WordBoundary>> >>
EMAIL_PATTERNS ==
    << <<Many(Alnum \cup {".", "_", "%", "+", "-"}, 1), Lit("@"),
         Many(Alnum \cup {".", "-"}, 1), Lit("."), Many(Letters, 2)>> >>
UPI_PATTERNS ==
    << <<Many(Alnum \cup {".", "-", "_", "+"}, 1), Lit("@"), Many(Alnum, 1),
         WordBoundary, NotDotLetter>> >>

\* extractor._has_tld: re.search(r'\.[a-zA-Z]{2,}$', domain)
_has_tld(domain) ==
    \E k \in 1..Len(domain) :
        /\ domain[k] = "."
        /\ Len(domain) - k >= 2
        /\ \A i \in (k + 1)..Len(domain) : domain[i] \in Letters

\* value.split("@", 1)[1]
AfterAt(value) ==
    LET at == CHOOSE k \in 1..Len(value) :
                  value[k] = "@" /\ \A i \in 1..(k - 1) : value[i] # "@"
    IN SubSeq(value, at + 1, Len(value))

\* extractor._is_likely_upi
_is_likely_upi(value) ==
    /\ \E k \in 1..Len(value) : value[k] = "@"
    /\ ~_has_tld(Lower(AfterAt(value)))

\* extractor._is_likely_bank_account
_is_likely_bank_account(value) ==
    LET digits == OnlyDigits(value) IN
    /\ Len(digits) >= 9 /\ Len(digits) <= 18
    /\ Len(digits) # 13

\* " ".join(texts)
RECURSIVE Join(_)
Join(texts) ==
    IF texts = <<>> THEN <<>>
    ELSE IF Len(texts) = 1 THEN Head(texts)
    ELSE Head(texts) \o <<" ">> \o Join(Tail(texts))

\* Skip if this is actually a phone number (extractor.py:319-321)
M_IsPhoneDigits_Never(c, phone_digit_set) == FALSE
IsPhoneDigits(c, phone_digit_set) == LastN(OnlyDigits(c), 10) \in phone_digit_set

\* extractor.extract_intelligence: the phones, emails, UPI ids and bank
\* accounts it returns
extract_intelligence(texts) ==
    LET full_text == Join(texts)
        phones == FindAll(PHONE_PATTERNS, full_text)
        email_addresses == FindAll(EMAIL_PATTERNS, full_text)
        email_set == {Lower(email_addresses[i]) : i \in DOMAIN email_addresses}
        raw_at_values == FindAll(UPI_PATTERNS, full_text)
        upi_ids == SelectSeq(raw_at_values,
                             LAMBDA val : Lower(val) \notin email_set /\ _is_likely_upi(val))
        phone_digit_set == {NormalizePhone(phones[i]) : i \in DOMAIN phones}
        bank_accounts ==
            SelectSeq(FindAll(BANK_ACCOUNT_PATTERNS, full_text),
                      LAMBDA c : ~IsPhoneDigits(c, phone_digit_set)
                                 /\ _is_likely_bank_account(c))
    IN [phoneNumbers |-> DedupePhones(phones),
        bankAccounts |-> Dedupe(bank_accounts),
        upiIds |-> Dedupe(upi_ids),
        emailAddresses |-> Dedupe(email_addresses)]

\* ------------------------------------------------------------------- records
\* models.ExtractedIntelligence()
EmptyIntel ==
    [phoneNumbers |-> <<>>, bankAccounts |-> <<>>, upiIds |-> <<>>,
     phishingLinks |-> <<>>, emailAddresses |-> <<>>, caseIds |-> <<>>,
     policyNumbers |-> <<>>, orderNumbers |-> <<>>, suspiciousKeywords |-> <<>>]

\* models.IntelResponse with only the required fields given
IntelResponse(detected, type, confidence) ==
    [scam_detected |-> detected, scam_type |-> type, confidence_level |-> confidence,
     phone_numbers |-> <<>>, bank_accounts |-> <<>>, upi_ids |-> <<>>,
     phishing_links |-> <<>>, email_addresses |-> <<>>, case_ids |-> <<>>,
     policy_numbers |-> <<>>, order_numbers |-> <<>>]

\* agent._union_intel
UnionIntel(regex_intel, llm_intel) ==
    [phoneNumbers |-> DedupePhones(regex_intel.phoneNumbers \o llm_intel.phone_numbers),
     bankAccounts |-> Dedupe(regex_intel.bankAccounts \o llm_intel.bank_accounts),
     upiIds |-> Dedupe(regex_intel.upiIds \o llm_intel.upi_ids),
     phishingLinks |-> Dedupe(regex_intel.phishingLinks \o llm_intel.phishing_links),
     emailAddresses |-> Dedupe(regex_intel.emailAddresses \o llm_intel.email_addresses),
     caseIds |-> Dedupe(regex_intel.caseIds \o llm_intel.case_ids),
     policyNumbers |-> Dedupe(regex_intel.policyNumbers \o llm_intel.policy_numbers),
     orderNumbers |-> Dedupe(regex_intel.orderNumbers \o llm_intel.order_numbers),
     suspiciousKeywords |-> regex_intel.suspiciousKeywords]

\* session_store.SessionState(session_id); confidence_level is the attribute
\* agent.py:426 assigns, -1 while it has not been assigned
SessionState(sid) ==
    [session_id |-> sid, turn_count |-> 0, scam_type |-> "bank_fraud",
     scam_detected |-> TRUE, confidence_level |-> 0 - 1, intel |-> EmptyIntel,
     callback_sent |-> FALSE, total_messages |-> 0]

\* callback.build_final_payload plus the sessionId key of send_callback;
\* confidenceLevel is not passed, so models.FinalPayload's default is sent.
\* The duration and the note, which no action of the model changes, are left
\* out of the record.
BuildFinalPayload(session) ==
    [sessionId |-> session.session_id,
     status |-> "success",
     scamDetected |-> session.scam_detected,
     scamType |-> session.scam_type,
     confidenceLevel |-> DefaultConfidence,
     extractedIntelligence |-> session.intel,
     totalMessagesExchanged |-> session.total_messages]

\* ------------------------------------------------- the template fallback reply
\* the canned sentences of _generate_fallback_reply, each abbreviated to a
\* two-character code: branch letter, index in its list
FallbackOptions(msg_lower) ==
    IF \E k \in {<<"o", "t", "p">>, <<"c", "o", "d", "e">>, <<"p", "a", "s", "s", "w", "o", "r", "d">>} : Contains(msg_lower, k)
    THEN <<<<"o", "0">>, <<"o", "1">>, <<"o", "2">>>>
    ELSE IF \E k \in {<<"u", "p", "i">>, <<"t", "r", "a", "n", "s", "f", "e", "r">>, <<"p", "a", "y", "m", "e", "n", "t">>, <<"s", "e", "n", "d">>} : Contains(msg_lower, k)
    THEN <<<<"u", "0">>, <<"u", "1">>, <<"u", "2">>>>
    ELSE IF \E k \in {<<"l", "i", "n", "k">>, <<"u", "r", "l">>, <<"w", "e", "b", "s", "i", "t", "e">>, <<"c", "l", "i", "c", "k">>} : Contains(msg_lower, k)
    THEN <<<<"l", "0">>, <<"l", "1">>, <<"l", "2">>>>
    ELSE IF \E k \in {<<"e", "m", "a", "i", "l">>, <<"m", "a", "i", "l">>} : Contains(msg_lower, k)
    THEN <<<<"e", "0">>, <<"e", "1">>, <<"e", "2">>>>
    ELSE <<<<"g", "0">>, <<"g", "1">>, <<"g", "2">>, <<"g", "3">>>>

\* agent._generate_fallback_reply: options[turn % len(options)], 0-based
GenerateFallbackReply(turn, scammer_message) ==
    LET options == FallbackOptions(Lower(scammer_message)) IN
    options[(turn % Len(options)) + 1]

\* routes.analyze's reply when run_agent raised, abbreviated
GenericReply == <<"s", "o", "r", "r", "y">>

\* the prefix loop of agent._run_reply_agent
RECURSIVE StripPrefixes(_, _)
StripPrefixes(reply, prefixes) ==
    IF prefixes = <<>> THEN reply
    ELSE IF StartsWith(reply, Head(prefixes))
    THEN StripPrefixes(Strip(SubSeq(reply, Len(Head(prefixes)) + 1, Len(reply))),
                       Tail(prefixes))
    ELSE StripPrefixes(reply, Tail(prefixes))

\* agent._run_reply_agent, applied to the content the LLM returned
RunReplyAgent(content) ==
    StripPrefixes(Strip(content), <<<<"R", "a", "m", "e", "s", "h", ":">>, <<"Y", "o", "u", ":">>, <<"M", "e", ":">>, <<"U", "s", "e", "r", ":">>>>)

\* -------------------------------------------------------------------- inputs
Phone10 == <<"9", "8", "7", "6", "5", "4", "3", "2", "1", "0">>
Phone91 == <<"+", "9", "1", "-", "9", "8", "7", "6", "5", "4", "3", "2", "1", "0">>
UpiFY == <<"f", "@", "y">>

\* What the caller sends with a turn: the latest message, and the
\* conversation-so-far, of which the turn uses extract_intelligence(all_texts)
\* (agent.py:325-327) and detect_scam_type(all_texts) (agent.py:369):
\*   history [],             message "hi"    -> nothing found, default type
\*   history ["9876543210"], message "otp"   -> one phone, keyword otp
NoRequest == [message |-> <<>>, regex_intel |-> EmptyIntel, keyword_type |-> "none"]
Requests ==
    {[message |-> <<"h", "i">>, regex_intel |-> EmptyIntel, keyword_type |-> "bank_fraud"],
     [message |-> <<"o", "t", "p">>,
      regex_intel |-> [EmptyIntel EXCEPT !.phoneNumbers = <<Phone10>>,
                                         !.suspiciousKeywords = <<<<"o", "t", "p">>>>],
      keyword_type |-> "bank_fraud"]}

\* what the reply LLM call does: returns content, or raises
ReplyOutcomes ==
    {[kind |-> "text", content |-> <<"o", "k">>],
     [kind |-> "text", content |-> <<"M", "e", ":", " ">>],
     [kind |-> "raise", content |-> <<>>]}

NoIntelResult == IntelResponse(FALSE, "none", 0)
\* what the structured intel LLM call does: returns an IntelResponse, returns
\* None (no object could be parsed from the output), or raises
IntelOutcomes ==
    {[kind |-> "value", value |-> IntelResponse(FALSE, "unknown", 30)],
     [kind |-> "value",
      value |-> [IntelResponse(TRUE, "phishing", 90) EXCEPT
                    !.phone_numbers = <<Phone91>>, !.upi_ids = <<UpiFY>>,
                    !.bank_accounts = <<Phone10>>, !.email_addresses = <<UpiFY>>]],
     [kind |-> "none", value |-> NoIntelResult],
     [kind |-> "raise", value |-> NoIntelResult]}

\* a call that has not returned when the 25 s budget of wait_for elapses
HungReply == [kind |-> "hang", content |-> <<>>]
HungIntel == [kind |-> "hang", value |-> NoIntelResult]

\* what the two calls of a turn do, each on its own; the budget elapses when
\* either of them hangs
LlmOutcomes ==
    {[timeout |-> (r.kind = "hang" \/ i.kind = "hang"), reply |-> r, intel |-> i] :
        r \in ReplyOutcomes \cup {HungReply}, i \in IntelOutcomes \cup {HungIntel}}

\* the result of the gather under wait_for (agent.py:342-355): the pair of
\* results (exceptions included), or both replaced by TimeoutError when the
\* budget elapses
TimedOut == [kind |-> "raise", content |-> <<>>]
GatherResult(out) ==
    IF out.timeout
    THEN [reply |-> TimedOut, intel |-> [kind |-> "raise", value |-> NoIntelResult]]
    ELSE [reply |-> out.reply, intel |-> out.intel]

\* outcome of the HTTP POST of send_callback
PostOutcomes == {"accepted", "bad_status", "raise"}

\* ------------------------------------------------ main.py: pure functions
MAX_MESSAGES_BEFORE_CALLBACK == 18
\* confidenceScore threshold 0.7 of should_send_callback, in hundredths
MinCallbackConfidence == 70

NoType == "<absent>"

EndsWith(s, suffix) ==
    /\ Len(s) >= Len(suffix)
    /\ SubSeq(s, Len(s) - Len(suffix) + 1, Len(s)) = suffix

\* main.py normalize_phone_number
normalize_phone_number(phone) ==
    LET digits == OnlyDigits(phone)
        local == IF Len(digits) = 12 /\ StartsWith(digits, <<"9", "1">>)
                 THEN SubSeq(digits, 3, 12) ELSE digits
    IN IF Len(local) > 10 THEN LastN(local, 10) ELSE local

\* re.sub(r'\.(com|in|co\.in|org|net)$', '', value.lower().strip()); the
\* leftmost match wins, so ".co.in" is tried before ".in"
TldSuffixes ==
    << <<".", "c", "o", ".", "i", "n">>, <<".", "c", "o", "m">>, <<".", "o", "r", "g">>,
       <<".", "n", "e", "t">>, <<".", "i", "n">> >>

RECURSIVE StripTldFrom(_, _)
StripTldFrom(s, i) ==
    IF i > Len(TldSuffixes) THEN s
    ELSE IF EndsWith(s, TldSuffixes[i])
    THEN SubSeq(s, 1, Len(s) - Len(TldSuffixes[i]))
    ELSE StripTldFrom(s, i + 1)

BaseOf(value) == StripTldFrom(Lower(Strip(value)), 1)

\* the phoneNumbers loop of deduplicate_intelligence: a dict keyed by the
\* normalised number, as the list of its [norm, value] items in insertion order
RECURSIVE MainDedupePhonesFrom(_, _)
MainDedupePhonesFrom(phones, normalized) ==
    IF phones = <<>> THEN normalized
    ELSE LET phone == Head(phones)
             norm == normalize_phone_number(phone)
             plus == StartsWith(phone, <<"+">>)
             value == IF plus THEN phone ELSE <<"+", "9", "1">> \o norm
             at == {i \in DOMAIN normalized : normalized[i].norm = norm}
         IN IF Len(norm) >= 10
            THEN IF at = {}
                 THEN MainDedupePhonesFrom(Tail(phones),
                          Append(normalized, [norm |-> norm, value |-> value]))
                 ELSE IF plus
                 THEN MainDedupePhonesFrom(Tail(phones),
                          [i \in DOMAIN normalized |->
                              IF i \in at THEN [norm |-> norm, value |-> value]
                              ELSE normalized[i]])
                 ELSE MainDedupePhonesFrom(Tail(phones), normalized)
            ELSE MainDedupePhonesFrom(Tail(phones), normalized)

\* the upiIds and emailAddresses loops of deduplicate_intelligence
RECURSIVE MainDedupeByBaseFrom(_, _)
MainDedupeByBaseFrom(items, normalized) ==
    IF items = <<>> THEN normalized
    ELSE LET item == Head(items)
             base == BaseOf(item)
             at == {i \in DOMAIN normalized : normalized[i].norm = base}
         IN IF at = {}
            THEN MainDedupeByBaseFrom(Tail(items),
                     Append(normalized, [norm |-> base, value |-> item]))
            ELSE IF \E i \in at : Len(item) > Len(normalized[i].value)
            THEN MainDedupeByBaseFrom(Tail(items),
                     [i \in DOMAIN normalized |->
                         IF i \in at THEN [norm |-> base, value |-> item]
                         ELSE normalized[i]])
            ELSE MainDedupeByBaseFrom(Tail(items), normalized)

Values(normalized) == [i \in DOMAIN normalized |-> normalized[i].value]

\* session_intelligence[session_id] as accumulate_session_intelligence creates
\* it.  The lists that the code rebuilds with list(set(...)) have no defined
\* order and are kept as sets; suspiciousKeywords holds whole strings.
MainEmptyIntel ==
    [bankAccounts |-> {}, upiIds |-> <<>>, phoneNumbers |-> <<>>, phishingLinks |-> {},
     emailAddresses |-> <<>>, employeeIds |-> {}, suspiciousKeywords |-> {}]

\* main.py deduplicate_intelligence
deduplicate_intelligence(intel) ==
    [intel EXCEPT !.phoneNumbers = Values(MainDedupePhonesFrom(intel.phoneNumbers, <<>>)),
                  !.upiIds = Values(MainDedupeByBaseFrom(intel.upiIds, <<>>)),
                  !.emailAddresses = Values(MainDedupeByBaseFrom(intel.emailAddresses, <<>>))]

AccumulatedKeywords == {"urgent", "verify now", "account blocked", "OTP", "immediately"}

\* main.py accumulate_session_intelligence, as a function of the stored value
accumulate_session_intelligence(stored, new_intel) ==
    LET existing == IF stored = NoSession THEN MainEmptyIntel ELSE stored
        extended ==
            [bankAccounts |-> existing.bankAccounts \cup new_intel.bankAccounts,
             upiIds |-> existing.upiIds \o new_intel.upiIds,
             phoneNumbers |-> existing.phoneNumbers \o new_intel.phoneNumbers,
             phishingLinks |-> existing.phishingLinks \cup new_intel.phishingLinks,
             emailAddresses |-> existing.emailAddresses \o new_intel.emailAddresses,
             employeeIds |-> existing.employeeIds \cup new_intel.employeeIds,
             suspiciousKeywords |-> existing.suspiciousKeywords \cup AccumulatedKeywords]
    IN deduplicate_intelligence(extended)

\* ------------------------------------------------------ main.py: scoring
\* get_missing_fields: the entity fields of known_intel that are still empty
IntelFields ==
    <<"phishingLinks", "bankAccounts", "upiIds", "phoneNumbers", "employeeIds",
      "emailAddresses">>

ItemsOf(list) == {list[i] : i \in DOMAIN list}

\* known_intel[field] as a set, whichever way the field is kept
KnownItems(known_intel, field) ==
    CASE field = "phishingLinks" -> known_intel.phishingLinks
      [] field = "bankAccounts" -> known_intel.bankAccounts
      [] field = "employeeIds" -> known_intel.employeeIds
      [] field = "upiIds" -> ItemsOf(known_intel.upiIds)
      [] field = "phoneNumbers" -> ItemsOf(known_intel.phoneNumbers)
      [] field = "emailAddresses" -> ItemsOf(known_intel.emailAddresses)

get_missing_fields(known_intel) ==
    SelectSeq(IntelFields, LAMBDA field : KnownItems(known_intel, field) = {})

\* the weights of SCORE 1
IntelWeight(field) ==
    CASE field = "phishingLinks" -> 15
      [] field = "bankAccounts" -> 12
      [] field = "upiIds" -> 10
      [] field = "phoneNumbers" -> 8
      [] field = "employeeIds" -> 6
      [] field = "emailAddresses" -> 5

\* the extraction_keywords of SCORE 2
ExtractionKeywords(field) ==
    CASE field = "phishingLinks" ->
            << <<"l", "i", "n", "k">>,
               <<"u", "r", "l">>,
               <<"w", "e", "b", "s", "i", "t", "e">>,
               <<"c", "l", "i", "c", "k">>,
               <<"o", "p", "e", "n">> >>
      [] field = "bankAccounts" ->
            << <<"a", "c", "c", "o", "u", "n", "t", " ", "n", "u", "m", "b", "e", "r">>,
               <<"a", "c", "c", "o", "u", "n", "t", " ", "n", "o">>,
               <<"k", "h", "a", "t", "a">>,
               <<"b", "a", "n", "k", " ", "a", "c", "c", "o", "u", "n", "t">> >>
      [] field = "upiIds" ->
            << <<"u", "p", "i">>,
               <<"v", "p", "a">>,
               <<"p", "a", "y", "t", "m">>,
               <<"p", "h", "o", "n", "e", "p", "e">>,
               <<"g", "p", "a", "y">> >>
      [] field = "phoneNumbers" ->
            << <<"p", "h", "o", "n", "e", " ", "n", "u", "m", "b", "e", "r">>,
               <<"m", "o", "b", "i", "l", "e">>,
               <<"c", "a", "l", "l">>,
               <<"c", "o", "n", "t", "a", "c", "t", " ", "n", "u", "m", "b", "e", "r">>,
               <<"h", "e", "l", "p", "l", "i", "n", "e">> >>
      [] field = "employeeIds" ->
            << <<"e", "m", "p", "l", "o", "y", "e", "e", " ", "i", "d">>,
               <<"b", "a", "d", "g", "e">>,
               <<"r", "e", "f", "e", "r", "e", "n", "c", "e">>,
               <<"i", "d", " ", "n", "u", "m", "b", "e", "r">>,
               <<"o", "f", "f", "i", "c", "e", "r", " ", "i", "d">> >>
      [] field = "emailAddresses" ->
            << <<"e", "m", "a", "i", "l">>,
               <<"m", "a", "i", "l", " ", "i", "d">>,
               <<"g", "m", "a", "i", "l">> >>

DangerWords ==
    << <<"s", "c", "a", "m">>,
       <<"f", "r", "a", "u", "d">>,
       <<"p", "o", "l", "i", "c", "e">>,
       <<"c", "y", "b", "e", "r", "c", "r", "i", "m", "e">>,
       <<"f", "a", "k", "e">>,
       <<"c", "h", "e", "a", "t">>,
       <<"i", "l", "l", "e", "g", "a", "l">>,
       <<"r", "e", "p", "o", "r", "t">> >>

\* str.split(): the set of the whitespace-separated words of s
RECURSIVE WordsFrom(_, _, _)
WordsFrom(s, word, words) ==
    IF s = <<>> THEN (IF word = <<>> THEN words ELSE words \cup {word})
    ELSE IF IsSpace(Head(s))
    THEN WordsFrom(Tail(s), <<>>, IF word = <<>> THEN words ELSE words \cup {word})
    ELSE WordsFrom(Tail(s), Append(word, Head(s)), words)

Words(s) == WordsFrom(s, <<>>, {})

RECURSIVE SumSeq(_)
SumSeq(xs) == IF xs = <<>> THEN 0 ELSE Head(xs) + SumSeq(Tail(xs))

\* the repetition penalty of one previous reply (main.py:599-608), in tenths;
\* overlap_ratio = |overlap| / |reply_words| is compared as a fraction
RepetitionPenalty(reply_words, prev) ==
    LET prev_words == Words(Lower(prev))
        overlap == Cardinality(reply_words \cap prev_words)
        total == Cardinality(reply_words)
    IN IF reply_words = {} \/ prev_words = {} THEN 0
       ELSE IF overlap * 10 > 6 * total THEN 250
       ELSE IF overlap * 10 > 4 * total THEN 100
       ELSE 0

\* main.py score_response, in tenths of a point; confidenceScore is kept in
\* hundredths, so confidenceScore * 10 points is confidenceScore tenths
score_response(response_dict, known_intel, missing_fields, previous_replies) ==
    LET intel == response_dict.extractedIntelligence
        reply == Lower(response_dict.reply)
        reply_len == Len(reply)
        reply_words == Words(reply)
        NewItems(field) ==
            Cardinality({i \in DOMAIN intel[field] :
                            intel[field][i] \notin KnownItems(known_intel, field)})
        score1 == SumSeq([k \in DOMAIN IntelFields |->
                             NewItems(IntelFields[k]) * IntelWeight(IntelFields[k]) * 10])
        score2 == SumSeq([k \in DOMAIN missing_fields |->
                             IF \E j \in DOMAIN ExtractionKeywords(missing_fields[k]) :
                                   Contains(reply, ExtractionKeywords(missing_fields[k])[j])
                             THEN 150 ELSE 0])
        score3 == IF response_dict.scamDetected THEN response_dict.confidenceScore ELSE 0
        score4 == IF 20 < reply_len /\ reply_len < 200 THEN 100
                  ELSE IF reply_len <= 20 THEN 30 ELSE 50
        danger == SumSeq([k \in DOMAIN DangerWords |->
                             IF Contains(reply, DangerWords[k]) THEN 200 ELSE 0])
        repetition == SumSeq([k \in DOMAIN previous_replies |->
                                 RepetitionPenalty(reply_words, previous_replies[k])])
    IN score1 + score2 + score3 + score4 - danger - repetition

\* --------------------------------------------- main.py: the strategy agents
\* the names of TACTICAL_PERSONAS, in their fixed order
PersonaNames == <<"confused_uncle", "eager_victim", "worried_citizen">>

\* extractedIntelligence of a response_dict: six lists
NoCandidateIntel ==
    [bankAccounts |-> <<>>, upiIds |-> <<>>, phoneNumbers |-> <<>>, phishingLinks |-> <<>>,
     emailAddresses |-> <<>>, employeeIds |-> <<>>]

RECURSIVE SetToSeq(_)
SetToSeq(S) ==
    IF S = {} THEN <<>>
    ELSE LET x == CHOOSE y \in S : TRUE IN <<x>> \o SetToSeq(S \ {x})

\* the canned replies generate_smart_fallback chooses from with random.choice,
\* abridged to one or two per persona
SmartFallbackOptions(persona_name) ==
    CASE persona_name = "confused_uncle" ->
            {<<"g", "i", "v", "e", " ", "m", "e", " ", "y", "o", "u", "r", " ", "c", "o", "n", "t", "a", "c", "t", " ", "n", "u", "m", "b", "e", "r", " ", "i", " ", "w", "i", "l", "l", " ", "c", "a", "l", "l", " ", "y", "o", "u">>,
             <<"w", "h", "i", "c", "h", " ", "b", "a", "n", "k", " ", "a", "r", "e", " ", "y", "o", "u", " ", "c", "a", "l", "l", "i", "n", "g", " ", "f", "r", "o", "m", " ", "s", "i", "r">>}
      [] persona_name = "eager_victim" ->
            {<<"s", "i", "r", " ", "t", "e", "l", "l", " ", "m", "e", " ", "y", "o", "u", "r", " ", "u", "p", "i", " ", "i", "d", " ", "i", " ", "w", "i", "l", "l", " ", "s", "e", "n", "d", " ", "n", "o", "w">>}
      [] OTHER ->
            {<<"p", "l", "e", "a", "s", "e", " ", "t", "e", "l", "l", " ", "m", "e", " ", "y", "o", "u", "r", " ", "e", "m", "p", "l", "o", "y", "e", "e", " ", "i", "d", " ", "f", "i", "r", "s", "t">>}

\* the filter of generate_smart_fallback (main.py:842-852): the options whose
\* text is not in the history, or all of them when none is left.  history_text
\* is kept as the texts of the history's messages that the honeypot sent
\* (the canned replies hold no line break, so an option is in the formatted
\* history exactly when it is in one of its messages); <<>> is ''.
UnusedOptions(options, history_text) ==
    IF history_text = <<>> THEN options
    ELSE LET filtered_options ==
                {opt \in options :
                    \A k \in DOMAIN history_text :
                        ~Contains(Lower(history_text[k]), Lower(opt))}
         IN IF filtered_options # {} THEN filtered_options ELSE options

\* random.choice(options): pick is the option the generator prefers in the
\* whole pool; a pool holds at most two options, so when pick has been
\* filtered out at most one option is left
RandomChoice(options, pick) ==
    IF pick \in options THEN pick ELSE CHOOSE opt \in options : TRUE

\* main.py generate_smart_fallback; inferred_type is
\* infer_scam_type_from_message(scammer_message)
generate_smart_fallback(inferred_type, history_text, persona_name, known_intel, pick) ==
    [reply |-> RandomChoice(UnusedOptions(SmartFallbackOptions(persona_name),
                                          history_text), pick),
     scamDetected |-> TRUE, confidenceScore |-> 80,
     scamType |-> inferred_type,
     extractedIntelligence |->
        [bankAccounts |-> SetToSeq(known_intel.bankAccounts),
         upiIds |-> known_intel.upiIds,
         phoneNumbers |-> known_intel.phoneNumbers,
         phishingLinks |-> SetToSeq(known_intel.phishingLinks),
         emailAddresses |-> known_intel.emailAddresses,
         employeeIds |-> SetToSeq(known_intel.employeeIds)]]

NoResponseDict ==
    [reply |-> <<>>, scamDetected |-> FALSE, confidenceScore |-> 0, scamType |-> "none",
     extractedIntelligence |-> NoCandidateIntel]

\* what a tier of run_single_agent ends with: a result it returns, or an
\* exception that its except clause catches
TierFailed == [returned |-> FALSE, score |-> 0, response |-> NoResponseDict]
TierReturns(response_dict, ctx) ==
    [returned |-> TRUE,
     score |-> score_response(response_dict, ctx.known_intel,
                              get_missing_fields(ctx.known_intel), ctx.previous_replies),
     response |-> response_dict]

\* ATTEMPT 1 (main.py:960-998): the structured call returns a HoneypotResponse,
\* returns None, or raises
StructuredTier(structured, ctx) ==
    IF structured.kind = "object" /\ Len(structured.response.reply) > 10
    THEN TierReturns(structured.response, ctx)
    ELSE TierFailed

\* ATTEMPT 2 (main.py:1000-1090): the raw call returns text that parses to a
\* JSON object (its missing fields are defaulted), text that is no JSON (the
\* text itself becomes the reply), JSON whose values have the wrong types
\* (score_response raises), or it raises
RawTier(raw, ctx) ==
    CASE raw.kind = "json" /\ raw.response.reply # <<>> -> TierReturns(raw.response, ctx)
      [] raw.kind = "text" /\ Len(raw.response.reply) > 10 ->
            TierReturns([NoResponseDict EXCEPT !.reply = raw.response.reply,
                                               !.scamDetected = TRUE,
                                               !.confidenceScore = 80,
                                               !.scamType = "unknown"], ctx)
      [] OTHER -> TierFailed

\* ATTEMPT 3 (main.py:1092-1103).  metadata.language is Optional: when the
\* request carries null, language.lower() in generate_smart_fallback raises
FallbackTier(persona_name, fallback_reply, ctx) ==
    IF ctx.language_ok
    THEN TierReturns(generate_smart_fallback(ctx.inferred_type, ctx.previous_replies,
                                             persona_name, ctx.known_intel,
                                             fallback_reply), ctx)
    ELSE TierFailed

\* the except branch of run_single_agent (main.py:1105-1127): the fallback
\* with score 0.1, or, when that raises too, a result without response and
\* with score -1 (scores in tenths)
AgentExcept(persona_name, fallback_reply, ctx, attempts) ==
    IF ctx.language_ok
    THEN [agent |-> persona_name, via |-> "except", score |-> 1, has_response |-> TRUE,
          response |-> generate_smart_fallback(ctx.inferred_type, <<>>, persona_name,
                                               ctx.known_intel, fallback_reply),
          attempts |-> attempts]
    ELSE [agent |-> persona_name, via |-> "last", score |-> 0 - 10,
          has_response |-> FALSE, response |-> NoResponseDict, attempts |-> attempts]

AgentReturns(persona_name, via, tier, attempts) ==
    [agent |-> persona_name, via |-> via, score |-> tier.score, has_response |-> TRUE,
     response |-> tier.response, attempts |-> attempts]

\* run_single_agent with ATTEMPT 3 entered before ATTEMPT 2's result is looked at
M_run_single_agent_TemplateFirst(persona_name, api_key, structured, raw, fallback_reply, ctx) ==
    LET tier1 == StructuredTier(structured, ctx)
        tier2 == RawTier(raw, ctx)
        tier3 == FallbackTier(persona_name, fallback_reply, ctx)
    IN IF ~api_key THEN AgentExcept(persona_name, fallback_reply, ctx, <<>>)
       ELSE IF tier1.returned THEN AgentReturns(persona_name, "structured", tier1, <<1>>)
       ELSE IF tier3.returned
            THEN AgentReturns(persona_name, "fallback", tier3, <<1, 2, 3>>)
       ELSE IF tier2.returned THEN AgentReturns(persona_name, "raw", tier2, <<1, 2>>)
       ELSE AgentExcept(persona_name, fallback_reply, ctx, <<1, 2, 3>>)

\* main.py run_single_agent; via names the return statement that ends the
\* call, and attempts lists the ATTEMPT blocks the call entered, in the order
\* it entered them (1 and 2 each make one generator call, 3 makes none).
\* Without OLLAMA_API_KEY the first statement of the try raises.
run_single_agent(persona_name, api_key, structured, raw, fallback_reply, ctx) ==
    LET tier1 == StructuredTier(structured, ctx)
        tier2 == RawTier(raw, ctx)
        tier3 == FallbackTier(persona_name, fallback_reply, ctx)
    IN IF ~api_key THEN AgentExcept(persona_name, fallback_reply, ctx, <<>>)
       ELSE IF tier1.returned THEN AgentReturns(persona_name, "structured", tier1, <<1>>)
       ELSE IF tier2.returned THEN AgentReturns(persona_name, "raw", tier2, <<1, 2>>)
       ELSE IF tier3.returned
            THEN AgentReturns(persona_name, "fallback", tier3, <<1, 2, 3>>)
       ELSE AgentExcept(persona_name, fallback_reply, ctx, <<1, 2, 3>>)

\* ----------------------------------------------------- main.py: the inputs
\* What the caller sends to main.py's /analyze: the latest message, the
\* conversation-so-far and the metadata, of which the handler uses
\* len(history), analyze_known_intelligence(history, text), the texts of the
\* history messages not sent by the scammer, infer_scam_type_from_message(text)
\* and metadata.language (a string, or null):
\*   16 messages without entities, text "hi"  -> nothing known, 'unknown'
\*   17 messages, one "9876543210", text "otp" -> one phone, 'bank_fraud'
\*   18 messages without entities, text "hi"  -> nothing known, 'unknown'
\*   16 messages without entities, text "hi", language null
NoMainRequest ==
    [message |-> <<>>, history_len |-> 0, known_intel |-> MainEmptyIntel,
     previous_replies |-> <<>>, inferred_type |-> "none", language_ok |-> TRUE]
PreviousReply == <<"g", "i", "v", "e", " ", "m", "e", " ", "y", "o", "u", "r", " ", "c", "o", "n", "t", "a", "c", "t", " ", "n", "u", "m", "b", "e", "r", " ", "i", " ", "w", "i", "l", "l", " ", "c", "a", "l", "l", " ", "y", "o", "u">>
MainRequests ==
    {[message |-> <<"h", "i">>, history_len |-> 16, known_intel |-> MainEmptyIntel,
      previous_replies |-> <<>>, inferred_type |-> "unknown", language_ok |-> TRUE],
     [message |-> <<"o", "t", "p">>, history_len |-> 17,
      known_intel |-> [MainEmptyIntel EXCEPT !.phoneNumbers = <<Phone10>>],
      previous_replies |-> <<PreviousReply>>,
      inferred_type |-> "bank_fraud", language_ok |-> TRUE],
     [message |-> <<"h", "i">>, history_len |-> 18, known_intel |-> MainEmptyIntel,
      previous_replies |-> <<>>, inferred_type |-> "unknown", language_ok |-> TRUE],
     [message |-> <<"h", "i">>, history_len |-> 16, known_intel |-> MainEmptyIntel,
      previous_replies |-> <<>>, inferred_type |-> "unknown", language_ok |-> FALSE]}

\* a request late in a session in which the honeypot has already sent the
\* one canned reply of eager_victim:
\*   16 messages, one of them that reply, text "hi"
RepeatedFallbackRequest ==
    [message |-> <<"h", "i">>, history_len |-> 16, known_intel |-> MainEmptyIntel,
     previous_replies |-> <<CHOOSE opt \in SmartFallbackOptions("eager_victim") : TRUE>>,
     inferred_type |-> "unknown", language_ok |-> TRUE]

\* what run_single_agent and score_response are handed of a request
Context(req) ==
    [known_intel |-> req.known_intel, previous_replies |-> req.previous_replies,
     inferred_type |-> req.inferred_type, language_ok |-> req.language_ok]

\* The response objects a generator call can produce: one that asks for the
\* missing details and reports a phone and a UPI id, one that reports the
\* helpline number 1930 and an account that is the phone's digits, one whose
\* reply is too short, and one without a reply.
Helpline == <<"1", "9", "3", "0">>
AskResponse ==
    [reply |-> <<"w", "h", "a", "t", " ", "i", "s", " ", "y", "o", "u", "r", " ", "u", "p", "i", " ", "i", "d", " ", "a", "n", "d", " ", "p", "h", "o", "n", "e", " ", "n", "u", "m", "b", "e", "r">>,
     scamDetected |-> TRUE, confidenceScore |-> 90, scamType |-> "phishing",
     extractedIntelligence |->
        [NoCandidateIntel EXCEPT !.phoneNumbers = <<Phone91>>, !.upiIds = <<UpiFY>>]]
HelplineResponse ==
    [reply |-> <<"c", "a", "l", "l", " ", "t", "h", "e", " ", "h", "e", "l", "p", "l", "i", "n", "e", " ", "b", "e", "f", "o", "r", "e", " ", "y", "o", "u", " ", "s", "e", "n", "d", " ", "m", "o", "n", "e", "y">>,
     scamDetected |-> TRUE, confidenceScore |-> 90, scamType |-> "unknown",
     extractedIntelligence |->
        [NoCandidateIntel EXCEPT !.phoneNumbers = <<Helpline>>,
                                 !.emailAddresses = <<UpiFY>>]]
ShortResponse ==
    [NoResponseDict EXCEPT !.reply = <<"o", "k">>, !.scamType = "unknown"]
PlainText == <<"t", "e", "l", "l", " ", "m", "e", " ", "y", "o", "u", "r", " ", "n", "u", "m", "b", "e", "r", " ", "p", "l", "e", "a", "s", "e">>

\* What the two generator calls of one strategy agent do (main.py:960-1090):
\* the structured call returns an object, returns None or raises; the raw
\* call returns JSON text, text that is no JSON, or raises.
NoOutput == [kind |-> "raise", response |-> NoResponseDict]
GeneratorOutcomes ==
    {[structured |-> [kind |-> "object", response |-> AskResponse], raw |-> NoOutput],
     [structured |-> [kind |-> "object", response |-> HelplineResponse], raw |-> NoOutput],
     [structured |-> [kind |-> "object", response |-> ShortResponse],
      raw |-> [kind |-> "json", response |-> AskResponse]],
     [structured |-> [kind |-> "none", response |-> NoResponseDict],
      raw |-> [kind |-> "text", response |-> [NoResponseDict EXCEPT !.reply = PlainText]]],
     [structured |-> NoOutput, raw |-> [kind |-> "json", response |-> NoResponseDict]],
     [structured |-> NoOutput, raw |-> NoOutput]}

\* the canned replies random.choice can give an agent
FallbackReplies == UNION {SmartFallbackOptions(PersonaNames[i]) : i \in DOMAIN PersonaNames}

\* the generator outcomes that the turns of analyze_message are run with
HandlerOutcomes ==
    {out \in GeneratorOutcomes :
        \/ out.structured.kind = "object" /\ out.structured.response # ShortResponse
        \/ out.structured.kind = "none"
        \/ out.raw.kind = "raise"}

\* the reply the handler answers with when not even a fallback could be
\* built (main.py:1606-1618), abridged
LastResortReply == <<"s", "i", "r", " ", "e", "k", " ", "m", "i", "n", "u", "t", "e">>

\* --------------------------------------------------------------------- state
VARIABLES
    store,        \* SessionStore._store: session id -> SessionState, or NoSession
    task,         \* the turn requests: position in run_agent and its locals
    deliveries,   \* send_callback coroutines: background tasks and manual triggers
    received,     \* per session: number of turn requests the caller has sent
    posts,        \* per session: number of HTTP POSTs issued to the endpoint
    accepted,     \* per session: number of POSTs the endpoint answered 200/201/202
    manual,       \* per session: number of manual triggers that issued a POST
    lastDone,     \* the turn request answered last: its locals and its response
    view,         \* routes.get_session: the answer to the latest inspection
    session_intelligence,   \* main.py:32, session id -> accumulated intel, or NoSession
    session_timestamps,     \* main.py:33, the session ids that have a timestamp
    session_callback_sent,  \* main.py:34, read with .get(session_id, False)
    session_scam_types,     \* main.py:35, session id -> type, or NoType
    handler,      \* main.py: the analyze_message request: position, locals, response
    mainReceived, \* main.py: number of analyze_message requests the caller has sent
    mainPosts,    \* main.py: per session, number of HTTP POSTs issued
    call          \* SpecPure: one call of a pure function, its arguments and result;
                  \* SpecClock: one turn or one strategy agent, with its clock

agentVars == <<store, task, deliveries, received, posts, accepted, manual, lastDone,
               view>>
mainVars == <<session_intelligence, session_timestamps, session_callback_sent,
              session_scam_types, handler, mainReceived, mainPosts>>
vars == <<agentVars, mainVars, call>>

TaskIds == 1..MaxTasks

NoResponse == [status |-> "none", reply |-> <<>>]
IdleTask ==
    [pc |-> "idle", sid |-> "none", turn |-> 0, overlap |-> 0, req |-> NoRequest,
     reply_text |-> <<>>, intel_result |-> NoIntelResult, merged_intel |-> EmptyIntel,
     reported |-> "none", raised |-> FALSE, response |-> NoResponse]

InFlight(t) == task[t].pc \in {"llm", "sleep"}

IdleHandler ==
    [pc |-> "idle", sid |-> "none", req |-> NoMainRequest, total_messages |-> 0,
     api_key |-> TRUE, agent_results |-> <<>>, response_dict |-> NoResponseDict,
     response |-> NoResponse]

NoCall == [fn |-> "none", done |-> TRUE]

\* no inspection has been answered yet
NoView ==
    [status |-> 0, session_id |-> "none", turn_count |-> 0, scam_type |-> "none",
     callback_sent |-> FALSE, final_payload |-> NoSession]

InitAgent ==
    /\ store = [s \in SessionIds |-> NoSession]
    /\ task = [t \in TaskIds |-> IdleTask]
    /\ deliveries = {}
    /\ received = [s \in SessionIds |-> 0]
    /\ posts = [s \in SessionIds |-> 0]
    /\ accepted = [s \in SessionIds |-> 0]
    /\ manual = [s \in SessionIds |-> 0]
    /\ lastDone = IdleTask
    /\ view = NoView

InitMain ==
    /\ session_intelligence = [s \in SessionIds |-> NoSession]
    /\ session_timestamps = {}
    /\ session_callback_sent = [s \in SessionIds |-> FALSE]
    /\ session_scam_types = [s \in SessionIds |-> NoType]
    /\ handler = IdleHandler
    /\ mainReceived = 0
    /\ mainPosts = [s \in SessionIds |-> 0]

Init == InitAgent /\ InitMain /\ call = NoCall

RECURSIVE SumOver(_, _)
SumOver(f, S) ==
    IF S = {} THEN 0
    ELSE LET x == CHOOSE y \in S : TRUE IN f[x] + SumOver(f, S \ {x})

\* SessionStore.get_or_create
GetOrCreate(sid) == IF store[sid] = NoSession THEN SessionState(sid) ELSE store[sid]

\* run_agent up to the await of the two LLM calls (agent.py:317-350)
\* the turn is counted in total_messages only
M_TurnStartSession_NotCounted(session) ==
    [session EXCEPT !.total_messages = (session.turn_count + 1) * 2]

TurnStartSession(session) ==
    [session EXCEPT !.turn_count = session.turn_count + 1,
                    !.total_messages = (session.turn_count + 1) * 2]

Receive(sid, req) ==
    /\ \E t \in TaskIds :
        /\ ~InFlight(t)
        /\ \A u \in TaskIds : u < t => InFlight(u)
        /\ LET session == TurnStartSession(GetOrCreate(sid))
               others == {u \in TaskIds : InFlight(u) /\ task[u].sid = sid}
           IN
           /\ store' = [store EXCEPT ![sid] = session]
           /\ task' = [task EXCEPT ![t] =
                  [IdleTask EXCEPT !.pc = "llm", !.sid = sid, !.req = req,
                                   !.turn = session.turn_count,
                                   !.overlap = IF others = {} THEN 0
                                               ELSE task[CHOOSE u \in others : TRUE].turn]]
    /\ received' = [received EXCEPT ![sid] = @ + 1]
    /\ UNCHANGED <<deliveries, posts, accepted, manual, lastDone>>
    /\ UNCHANGED <<mainVars, call, view>>

\* a turn request arrives when every earlier one has been answered.  The
\* task that a turn created with asyncio.create_task (agent.py:459) is in the
\* loop's ready queue before the turn's response is sent, so it has run to
\* its first suspension before a request sent after that response is handled.
TurnStart(sid, req) ==
    /\ SumOver(received, SessionIds) < MaxRequests
    /\ \A u \in TaskIds : ~InFlight(u)
    /\ \A d \in deliveries : d.pc # "created"
    /\ Receive(sid, req)

\* a turn request arrives, whether or not earlier ones have been answered
TurnStartOverlapping(sid, req) ==
    /\ SumOver(received, SessionIds) < MaxOverlapRequests
    /\ Receive(sid, req)

\* the reply of the turn (agent.py:357-363); session.turn_count is read from
\* the shared session object when the LLM calls have returned
ReplyText(session, req, reply_outcome) ==
    IF reply_outcome.kind = "raise"
    THEN GenerateFallbackReply(session.turn_count, req.message)
    ELSE RunReplyAgent(reply_outcome.content)

\* the intel result of the turn (agent.py:365-380)
IntelResult(req, intel_outcome) ==
    IF intel_outcome.kind = "raise"
    THEN IntelResponse(TRUE, req.keyword_type, DefaultConfidence)
    ELSE intel_outcome.value

\* whether the pacing block may compute a delay at all (agent.py:404-405)
InPacingWindow(session) ==
    SMART_PACING_ENABLED /\ 1 <= session.turn_count /\ session.turn_count <= PACING_END_TURN

\* the persisted state is rebuilt from the turn's results, delivery flag included
M_PersistSession_ResetsFlag(session, intel_result, merged_intel) ==
    [session EXCEPT !.intel = merged_intel,
                    !.scam_type = intel_result.scam_type,
                    !.scam_detected = intel_result.scam_detected,
                    !.confidence_level = intel_result.confidence_level,
                    !.callback_sent = FALSE]

\* the merged intelligence is not written to the session
M_PersistSession_KeepsIntel(session, intel_result, merged_intel) ==
    [session EXCEPT !.scam_type = intel_result.scam_type,
                    !.scam_detected = intel_result.scam_detected,
                    !.confidence_level = intel_result.confidence_level]

\* Step 5, persist state (agent.py:422-426)
PersistSession(session, intel_result, merged_intel) ==
    [session EXCEPT !.intel = merged_intel,
                    !.scam_type = intel_result.scam_type,
                    !.scam_detected = intel_result.scam_detected,
                    !.confidence_level = intel_result.confidence_level]

\* Step 6, callback decision (agent.py:451-458)
ShouldSend(turn) == turn >= SEND_CALLBACK_AFTER_TURN \/ turn >= MAX_TURNS

SpawnsDelivery(session) == ShouldSend(session.turn_count) /\ ~session.callback_sent

\* a send_callback coroutine that has been created and has not yet run
CreatedDelivery(sid, origin) ==
    [sid |-> sid, origin |-> origin, seq |-> 0, pc |-> "created"]

\* what routes.analyze answers for a reply (routes.py:52-64)
AnalyzeResponse(reply) == [status |-> "success", reply |-> reply]

\* the record of a finished turn request
DoneTask(t, reply, merged_intel, reported, raised) ==
    [IdleTask EXCEPT !.pc = "done", !.sid = task[t].sid, !.turn = task[t].turn,
                     !.overlap = task[t].overlap, !.merged_intel = merged_intel,
                     !.reported = reported, !.raised = raised,
                     !.response = AnalyzeResponse(reply)]

\* run_agent from Step 5 to its return (agent.py:422-464), then routes.analyze
FinishTurn(t, reply_text, intel_result, merged_intel, reported) ==
    LET sid == task[t].sid
        session == PersistSession(store[sid], intel_result, merged_intel)
    IN
    /\ store' = [store EXCEPT ![sid] = session]
    /\ deliveries' = IF SpawnsDelivery(session)
                     THEN deliveries \cup {CreatedDelivery(sid, task[t].turn)}
                     ELSE deliveries
    /\ task' = [task EXCEPT ![t] = IdleTask]
    /\ lastDone' = DoneTask(t, reply_text, merged_intel, reported, FALSE)

\* run_agent raised before Step 5; routes.analyze answers the generic reply
FailTurn(t) ==
    /\ task' = [task EXCEPT ![t] = IdleTask]
    /\ lastDone' = DoneTask(t, GenericReply, EmptyIntel, "none", TRUE)
    /\ UNCHANGED <<store, deliveries>>

\* the LLM gather returns or times out; run_agent runs on to the pacing sleep,
\* or, when no sleep is due, to its return (agent.py:351-420)
LlmDone(t, out, sleeps) ==
    /\ task[t].pc = "llm"
    /\ LET session == store[task[t].sid]
           results == GatherResult(out)
           reply_text == ReplyText(session, task[t].req, results.reply)
           intel_result == IntelResult(task[t].req, results.intel)
           merged_intel == UnionIntel(task[t].req.regex_intel, intel_result)
           reported == IF results.intel.kind = "value" THEN intel_result.scam_type
                       ELSE "none"
       IN
       IF results.intel.kind = "none"
       THEN \* None has no scam_type: AttributeError at agent.py:384
            /\ ~sleeps
            /\ FailTurn(t)
       ELSE IF sleeps
       THEN /\ InPacingWindow(session)
            /\ task' = [task EXCEPT ![t] =
                   [@ EXCEPT !.pc = "sleep", !.req = NoRequest, !.reply_text = reply_text,
                             !.intel_result = intel_result, !.merged_intel = merged_intel,
                             !.reported = reported]]
            /\ UNCHANGED <<store, deliveries, lastDone>>
       ELSE FinishTurn(t, reply_text, intel_result, merged_intel, reported)
    /\ UNCHANGED <<received, posts, accepted, manual>>
    /\ UNCHANGED <<mainVars, call, view>>

\* the pacing sleep ends (agent.py:420)
WakeUp(t) ==
    /\ task[t].pc = "sleep"
    /\ FinishTurn(t, task[t].reply_text, task[t].intel_result, task[t].merged_intel,
                  task[t].reported)
    /\ UNCHANGED <<received, posts, accepted, manual>>
    /\ UNCHANGED <<mainVars, call, view>>

\* send_callback up to the await of the POST (callback.py:42-59)
SkipsPost(session) == session.callback_sent

\* the background send_callback starts running (callback.py:74-76, 42-59)
DeliveryStart(d) ==
    /\ d \in deliveries
    /\ d.pc = "created"
    /\ IF SkipsPost(store[d.sid])
       THEN /\ deliveries' = deliveries \ {d}
            /\ UNCHANGED posts
       ELSE /\ posts' = [posts EXCEPT ![d.sid] = @ + 1]
            /\ deliveries' = (deliveries \ {d}) \cup
                   {[d EXCEPT !.pc = "posting", !.seq = posts[d.sid] + 1]}
    /\ UNCHANGED <<store, task, received, accepted, manual, lastDone>>
    /\ UNCHANGED <<mainVars, call, view>>

\* the session is marked once the endpoint has answered, whatever the status
M_AfterPost_MarksAnyResponse(session, outcome) ==
    IF outcome \in {"accepted", "bad_status"}
    THEN [session EXCEPT !.callback_sent = TRUE]
    ELSE session

\* send_callback after the POST (callback.py:60-71)
AfterPost(session, outcome) ==
    IF outcome = "accepted" THEN [session EXCEPT !.callback_sent = TRUE] ELSE session

\* the POST returns a status or raises (a hung POST raises after CALLBACK_TIMEOUT)
PostDone(d, outcome) ==
    /\ d \in deliveries
    /\ d.pc = "posting"
    /\ store' = [store EXCEPT ![d.sid] = AfterPost(@, outcome)]
    /\ accepted' = [accepted EXCEPT ![d.sid] = IF outcome = "accepted" THEN @ + 1 ELSE @]
    /\ deliveries' = deliveries \ {d}
    /\ UNCHANGED <<task, received, posts, manual, lastDone>>
    /\ UNCHANGED <<mainVars, call, view>>

\* routes.trigger_callback (routes.py:89-101) up to its first suspension
TriggerCallback(sid) ==
    /\ SumOver(manual, SessionIds) < MaxManual
    /\ IF store[sid] = NoSession
       THEN \* 404 Session not found
            UNCHANGED <<deliveries, posts, manual>>
       ELSE IF SkipsPost(store[sid])
       THEN \* answers success without a POST
            UNCHANGED <<deliveries, posts, manual>>
       ELSE /\ posts' = [posts EXCEPT ![sid] = @ + 1]
            /\ manual' = [manual EXCEPT ![sid] = @ + 1]
            /\ deliveries' = deliveries \cup
                   {[sid |-> sid, origin |-> 0, seq |-> posts[sid] + 1, pc |-> "posting"]}
    /\ UNCHANGED <<store, task, received, accepted, lastDone>>
    /\ UNCHANGED <<mainVars, call, view>>

Next ==
    \/ \E sid \in SessionIds, req \in Requests : TurnStart(sid, req)
    \/ \E t \in TaskIds, out \in LlmOutcomes, sleeps \in BOOLEAN : LlmDone(t, out, sleeps)
    \/ \E t \in TaskIds : WakeUp(t)
    \/ \E d \in deliveries : DeliveryStart(d)
    \/ \E d \in deliveries, outcome \in PostOutcomes : PostDone(d, outcome)
    \/ \E sid \in SessionIds : TriggerCallback(sid)

Spec == Init /\ [][Next]_vars

\* the caller does not wait for a reply before it sends the next turn; within
\* MaxOverlapRequests turns no delivery is due (SEND_CALLBACK_AFTER_TURN)
NextOverlap ==
    \/ \E sid \in SessionIds, req \in Requests : TurnStartOverlapping(sid, req)
    \/ \E t \in TaskIds, out \in LlmOutcomes, sleeps \in BOOLEAN : LlmDone(t, out, sleeps)
    \/ \E t \in TaskIds : WakeUp(t)

SpecOverlap == Init /\ [][NextOverlap]_vars

\* --------------------------------------------------- routes.py: inspection
\* the lookup creates the session it does not find
M_StoreGet_Creates(sid) ==
    [session |-> GetOrCreate(sid), store |-> [store EXCEPT ![sid] = GetOrCreate(sid)]]

\* SessionStore.get (session_store.py:54-55): the session or None, and the
\* store as the call leaves it
StoreGet(sid) == [session |-> store[sid], store |-> store]

\* what routes.get_session answers (routes.py:75-86); elapsed_seconds is left
\* out, as the duration is in BuildFinalPayload
SessionView(sid, session) ==
    IF session = NoSession
    THEN [NoView EXCEPT !.status = 404, !.session_id = sid]
    ELSE [status |-> 200, session_id |-> sid, turn_count |-> session.turn_count,
          scam_type |-> session.scam_type, callback_sent |-> session.callback_sent,
          final_payload |-> BuildFinalPayload(session)]

\* GET /session/{session_id} (routes.py:67-86); the handler has no await that
\* suspends
GetSession(sid) ==
    /\ view' = SessionView(sid, StoreGet(sid).session)
    /\ store' = StoreGet(sid).store
    /\ UNCHANGED <<task, deliveries, received, posts, accepted, manual, lastDone>>
    /\ UNCHANGED <<mainVars, call>>

\* a turn request arrives when every earlier one has been answered, in a
\* service that is being inspected
TurnStartInspected(sid, req) ==
    /\ SumOver(received, SessionIds) < MaxInspectedRequests
    /\ \A u \in TaskIds : ~InFlight(u)
    /\ Receive(sid, req)

NextInspect ==
    \/ \E sid \in SessionIds, req \in Requests : TurnStartInspected(sid, req)
    \/ \E t \in TaskIds, out \in LlmOutcomes, sleeps \in BOOLEAN : LlmDone(t, out, sleeps)
    \/ \E t \in TaskIds : WakeUp(t)
    \/ \E sid \in SessionIds : GetSession(sid)

SpecInspect == Init /\ [][NextInspect]_vars

\* ------------------------------------------------- main.py: analyze_message
\* Track scam type per session (main.py:1551-1556)
TrackScamType(current, detected_type, inferred_type) ==
    IF detected_type # "unknown" THEN detected_type
    ELSE IF current = NoType THEN inferred_type
    ELSE current

\* should_send_callback (main.py:1569-1573)
ShouldSendCallback(total_messages, response_dict) ==
    /\ total_messages >= MAX_MESSAGES_BEFORE_CALLBACK
    /\ response_dict.scamDetected
    /\ response_dict.confidenceScore >= MinCallbackConfidence

\* the api_response of the handler (main.py:1578-1585)
ApiResponse(response_dict) == [status |-> "success", reply |-> response_dict.reply]

\* analyze_message up to the await of the three strategy agents
\* (main.py:1410-1477); the caller waits for the answer before the next request.
\* api_key tells whether OLLAMA_API_KEY is set in the environment of the turn.
MainAnalyzeStart(sid, req, api_key) ==
    /\ mainReceived < MaxMainRequests
    /\ handler.pc \in {"idle", "done"}
    /\ handler' = [IdleHandler EXCEPT !.pc = "llm", !.sid = sid, !.req = req,
                                      !.api_key = api_key]
    /\ mainReceived' = mainReceived + 1
    /\ UNCHANGED <<session_intelligence, session_timestamps, session_callback_sent,
                   session_scam_types, mainPosts>>
    /\ UNCHANGED <<agentVars, call>>

\* Filter out failed agents (main.py:1479-1486)
ValidResults(agent_results) == SelectSeq(agent_results, LAMBDA r : r.has_response)

\* max(valid_results, key=score): the first result of maximal score
RECURSIVE BestFrom(_, _)
BestFrom(results, best) ==
    IF results = <<>> THEN best
    ELSE BestFrom(Tail(results), IF Head(results).score > best.score
                                 THEN Head(results) ELSE best)
M_BestResult_Last(valid_results) ==
    LET top == CHOOSE m \in {valid_results[i].score : i \in DOMAIN valid_results} :
                   \A j \in DOMAIN valid_results : valid_results[j].score <= m
        at == {i \in DOMAIN valid_results : valid_results[i].score = top}
    IN valid_results[CHOOSE i \in at : \A j \in at : j <= i]
BestResult(valid_results) == BestFrom(Tail(valid_results), Head(valid_results))

\* main.py merge_intelligence: per field the set of the items of every
\* response; list(set(...)) leaves the order of each list open
merge_intelligence(responses) ==
    [f \in {"bankAccounts", "upiIds", "phoneNumbers", "phishingLinks", "emailAddresses",
            "employeeIds"} |->
        UNION {ItemsOf(responses[i].extractedIntelligence[f]) : i \in DOMAIN responses}]

\* the lists a set can be turned into
Orderings(S) ==
    {q \in [1..Cardinality(S) -> S] : \A i, j \in DOMAIN q : q[i] = q[j] => i = j}

\* one strategy agent runs to its return (main.py:876-1127); gather keeps the
\* results in the order of the personas whichever agent finishes first, so
\* the agents are taken in that order.  out is what the agent's two generator
\* calls do, pick the canned reply random.choice would give it.
MainAgentDone(out, pick) ==
    /\ handler.pc = "llm"
    /\ Len(handler.agent_results) < Len(PersonaNames)
    /\ LET persona_name == PersonaNames[Len(handler.agent_results) + 1]
       IN /\ pick \in SmartFallbackOptions(persona_name)
          /\ handler' = [handler EXCEPT !.agent_results =
                 Append(@, run_single_agent(persona_name, handler.api_key,
                                            out.structured, out.raw, pick,
                                            Context(handler.req)))]
    /\ UNCHANGED <<session_intelligence, session_timestamps, session_callback_sent,
                   session_scam_types, mainReceived, mainPosts>>
    /\ UNCHANGED <<agentVars, call>>

\* gather has returned the three results: analyze_message runs on to its
\* return, or into send_callback's requests.post, a blocking call made on the
\* event loop (main.py:1479-1623, 118-147)
MainAgentsDone ==
    /\ handler.pc = "llm"
    /\ Len(handler.agent_results) = Len(PersonaNames)
    /\ LET sid == handler.sid
           req == handler.req
           total_messages == req.history_len + 1
           agent_results == handler.agent_results
           valid_results == ValidResults(agent_results)
       IN
       IF valid_results = <<>>
       THEN \* "All agents failed": the fallback of the except branch fails for
            \* the reason the agents' fallbacks failed, the last resort answers
            /\ handler' = [handler EXCEPT !.pc = "done", !.total_messages = total_messages,
                              !.response = [status |-> "success",
                                            reply |-> LastResortReply]]
            /\ UNCHANGED <<session_intelligence, session_timestamps,
                           session_callback_sent, session_scam_types, mainPosts>>
       ELSE LET response_dict == BestResult(valid_results).response
                merged == merge_intelligence(
                              [i \in DOMAIN valid_results |-> valid_results[i].response])
            IN
            /\ \E upiIds \in Orderings(merged["upiIds"]),
                  phoneNumbers \in Orderings(merged["phoneNumbers"]),
                  emailAddresses \in Orderings(merged["emailAddresses"]) :
                  session_intelligence' = [session_intelligence EXCEPT ![sid] =
                      accumulate_session_intelligence(
                          accumulate_session_intelligence(@, req.known_intel),
                          [bankAccounts |-> merged["bankAccounts"],
                           upiIds |-> upiIds,
                           phoneNumbers |-> phoneNumbers,
                           phishingLinks |-> merged["phishingLinks"],
                           emailAddresses |-> emailAddresses,
                           employeeIds |-> merged["employeeIds"]])]
            /\ session_scam_types' = [session_scam_types EXCEPT ![sid] =
                   TrackScamType(@, response_dict.scamType, req.inferred_type)]
            /\ session_timestamps' = session_timestamps \cup {sid}
            /\ UNCHANGED session_callback_sent
            /\ IF ShouldSendCallback(total_messages, response_dict)
                  /\ ~session_callback_sent[sid]
               THEN /\ mainPosts' = [mainPosts EXCEPT ![sid] = @ + 1]
                    /\ handler' = [handler EXCEPT !.pc = "post",
                                      !.total_messages = total_messages,
                                              !.response_dict = response_dict]
               ELSE /\ UNCHANGED mainPosts
                    /\ handler' = [handler EXCEPT !.pc = "done",
                                      !.total_messages = total_messages,
                                              !.response_dict = response_dict,
                                      !.response = ApiResponse(response_dict)]
    /\ UNCHANGED mainReceived
    /\ UNCHANGED <<agentVars, call>>

\* requests.post returns a response or raises (a hung POST raises after its
\* timeout of 10 s); send_callback and then analyze_message return
\* (main.py:147-153, 1578-1585)
MainPostDone(outcome) ==
    /\ handler.pc = "post"
    /\ session_callback_sent' = [session_callback_sent EXCEPT ![handler.sid] =
           IF outcome = "raise" THEN @ ELSE TRUE]
    /\ handler' = [handler EXCEPT !.pc = "done",
                      !.response = ApiResponse(handler.response_dict)]
    /\ UNCHANGED <<session_intelligence, session_timestamps, session_scam_types,
                   mainReceived, mainPosts>>
    /\ UNCHANGED <<agentVars, call>>

NextMain ==
    \/ \E sid \in SessionIds, req \in MainRequests, api_key \in BOOLEAN :
          MainAnalyzeStart(sid, req, api_key)
    \/ \E out \in HandlerOutcomes, pick \in FallbackReplies : MainAgentDone(out, pick)
    \/ MainAgentsDone
    \/ \E outcome \in PostOutcomes : MainPostDone(outcome)

SpecMain == Init /\ [][NextMain]_vars

\* ------------------------------------------------------- the pure functions
\* A call of one of the functions below: its arguments, and once it has
\* returned, its result.
NoAgentResult ==
    [agent |-> "none", via |-> "none", score |-> 0, has_response |-> FALSE,
     response |-> NoResponseDict, attempts |-> <<>>]
RunSingleAgentCalls ==
    {[fn |-> "run_single_agent", done |-> FALSE, persona_name |-> PersonaNames[i],
      api_key |-> api_key, out |-> out, fallback_reply |-> pick, req |-> req,
      agent_result |-> NoAgentResult] :
        i \in DOMAIN PersonaNames, api_key \in BOOLEAN, out \in GeneratorOutcomes,
        pick \in FallbackReplies, req \in MainRequests \cup {RepeatedFallbackRequest}}

\* _generate_fallback_reply is called on two turns of one session: an earlier
\* one and a later one, each with the message of its turn
FallbackReplyCalls ==
    {[fn |-> "_generate_fallback_reply", done |-> FALSE, turn |-> turn,
      earlier_turn |-> earlier_turn, scammer_message |-> req.message,
      earlier_message |-> earlier_req.message, reply |-> <<>>, earlier_reply |-> <<>>] :
        turn \in 2..MaxFallbackTurn, earlier_turn \in 1..MaxFallbackTurn,
        req \in Requests, earlier_req \in Requests}

\* score_response is called on a candidate and on the candidate that differs
\* from it by one more word in its reply, a word of danger_words
SendReply == <<"s", "e", "n", "d", " ", "m", "e", " ", "m", "o", "n", "e", "y">>
ScoreCandidates ==
    {AskResponse, ShortResponse,
     [ShortResponse EXCEPT !.reply = SendReply, !.scamDetected = TRUE,
                           !.confidenceScore = 80]}
ScorePreviousReplies ==
    {<<>>, <<PreviousReply>>, <<<<"s", "e", "n", "d", " ", "m", "e">>, <<"o", "k", " ", "s", "e", "n", "d", " ", "m", "e">>>>}
WithWord(response_dict, word) ==
    [response_dict EXCEPT !.reply = @ \o <<" ">> \o word]
ScoreResponseCalls ==
    {[fn |-> "score_response", done |-> FALSE, response_dict |-> response_dict,
      word |-> DangerWords[w], known_intel |-> req.known_intel,
      missing_fields |-> IF with_missing THEN get_missing_fields(req.known_intel) ELSE <<>>,
      previous_replies |-> previous_replies,
      score |-> 0, score_with_word |-> 0] :
        response_dict \in ScoreCandidates, w \in DOMAIN DangerWords, req \in MainRequests,
        with_missing \in BOOLEAN,
        previous_replies \in ScorePreviousReplies}

\* _dedupe_phones is called on the lists of at most MaxPhones of these
\* literals: a bare mobile number, the same with country code, the same
\* followed by blanks, a helpline number
PaddedPhone == <<"9", "8", "7", "6", "5", "4", "3", "2", "1", "0", " ", " ", " ", " ", " ">>
PhoneLiterals == {Phone10, Phone91, PaddedPhone, Helpline}
DedupePhonesCalls ==
    {[fn |-> "_dedupe_phones", done |-> FALSE, phones |-> phones, once |-> <<>>,
      twice |-> <<>>] :
        phones \in UNION {[1..n -> PhoneLiterals] : n \in 0..MaxPhones}}

\* extract_intelligence is called on texts around one address token
\* local@domain, the domain made of at most MaxLabels labels joined by dots,
\* and on lists of at most MaxTexts texts that are a phone or a run of digits
AddressLocals == {<<"a">>, <<"r", ".", "k">>}
DomainLabels == {<<"b">>, <<"b", "-", "c">>, <<"i", "n">>, <<"x", "1">>}
RECURSIVE JoinLabels(_)
JoinLabels(labels) ==
    IF Len(labels) = 1 THEN Head(labels)
    ELSE Head(labels) \o <<".">> \o JoinLabels(Tail(labels))
AddressDomains ==
    {JoinLabels(labels) : labels \in UNION {[1..n -> DomainLabels] : n \in 1..MaxLabels}}
NoToken == [local |-> <<>>, domain |-> <<>>]
TokenText(token) == token.local \o <<"@">> \o token.domain
Account16 == <<"1", "2", "3", "4", "5", "6", "7", "8", "9", "0", "1", "2", "3", "4", "5", "6">>
Account16EndingInPhone == <<"1", "2", "3", "4", "5", "6", "9", "8", "7", "6", "5", "4", "3", "2", "1", "0">>
Account9 == <<"1", "2", "3", "4", "5", "6", "7", "8", "9">>
Digits13 == <<"1", "2", "3", "4", "5", "6", "7", "8", "9", "0", "1", "2", "3">>
NumericTexts == {Phone10, Phone91, Account16, Account16EndingInPhone, Account9, Digits13}
NoExtraction ==
    [phoneNumbers |-> <<>>, bankAccounts |-> <<>>, upiIds |-> <<>>, emailAddresses |-> <<>>]
ExtractCalls ==
    {[fn |-> "extract_intelligence", done |-> FALSE, token |-> token,
      texts |-> IF sentence THEN <<<<"p", "a", "y">>, TokenText(token), <<"n", "o", "w">>>> ELSE <<TokenText(token)>>,
      intel |-> NoExtraction] :
        token \in [local : AddressLocals, domain : AddressDomains], sentence \in BOOLEAN}
    \cup
    {[fn |-> "extract_intelligence", done |-> FALSE, token |-> NoToken, texts |-> texts,
      intel |-> NoExtraction] :
        texts \in UNION {[1..n -> NumericTexts] : n \in 1..MaxTexts}}

PureCalls ==
    {c \in RunSingleAgentCalls : c.fallback_reply \in SmartFallbackOptions(c.persona_name)}
        \cup ScoreResponseCalls \cup DedupePhonesCalls \cup ExtractCalls
        \cup {c \in FallbackReplyCalls : c.earlier_turn < c.turn}

InitPure == InitAgent /\ InitMain /\ call \in PureCalls

ApplyRunSingleAgent ==
    /\ call.fn = "run_single_agent" /\ ~call.done
    /\ call' = [call EXCEPT !.done = TRUE,
                   !.agent_result = run_single_agent(call.persona_name, call.api_key,
                                        call.out.structured, call.out.raw,
                                        call.fallback_reply, Context(call.req))]
    /\ UNCHANGED <<agentVars, mainVars>>

ApplyScoreResponse ==
    /\ call.fn = "score_response" /\ ~call.done
    /\ call' = [call EXCEPT !.done = TRUE,
                   !.score = score_response(call.response_dict, call.known_intel,
                                 call.missing_fields, call.previous_replies),
                   !.score_with_word =
                       score_response(WithWord(call.response_dict, call.word),
                                      call.known_intel, call.missing_fields,
                                      call.previous_replies)]
    /\ UNCHANGED <<agentVars, mainVars>>

ApplyDedupePhones ==
    /\ call.fn = "_dedupe_phones" /\ ~call.done
    /\ call' = [call EXCEPT !.done = TRUE,
                   !.once = DedupePhones(call.phones),
                   !.twice = DedupePhones(DedupePhones(call.phones))]
    /\ UNCHANGED <<agentVars, mainVars>>

ApplyExtractIntelligence ==
    /\ call.fn = "extract_intelligence" /\ ~call.done
    /\ call' = [call EXCEPT !.done = TRUE, !.intel = extract_intelligence(call.texts)]
    /\ UNCHANGED <<agentVars, mainVars>>

ApplyGenerateFallbackReply ==
    /\ call.fn = "_generate_fallback_reply" /\ ~call.done
    /\ call' = [call EXCEPT !.done = TRUE,
                   !.reply = GenerateFallbackReply(call.turn, call.scammer_message),
                   !.earlier_reply = GenerateFallbackReply(call.earlier_turn,
                                                           call.earlier_message)]
    /\ UNCHANGED <<agentVars, mainVars>>

NextPure ==
    \/ ApplyRunSingleAgent
    \/ ApplyScoreResponse
    \/ ApplyDedupePhones
    \/ ApplyExtractIntelligence
    \/ ApplyGenerateFallbackReply

SpecPure == InitPure /\ [][NextPure]_vars

\* --------------------------------------------------- the clock of one turn
\* Time is counted in ticks of 1/2520 s from _turn_start (agent.py:318): a
\* whole number of seconds then divides exactly by every number of remaining
\* turns 1..9 (agent.py:410).  The code between two awaits takes no time.
TicksPerSecond == 2520
Seconds(n) == n * TicksPerSecond
LLM_TIMEOUT == 25
TARGET_DURATION == 182
MaxTurnSeconds == 24
CallerTimeout == 30
\* the sleep is skipped unless final_delay > 0.5 (agent.py:418)
MinSleep == TicksPerSecond \div 2

\* every remaining turn is given the share of a turn of the whole window
M_RemainingTurns_WholeWindow(turn_count) == PACING_END_TURN

\* remaining_turns (agent.py:409)
RemainingTurns(turn_count) == (PACING_END_TURN - turn_count) + 1

\* calculated_delay (agent.py:407-410)
CalculatedDelay(turn_count, elapsed_total_session) ==
    (Seconds(TARGET_DURATION) - elapsed_total_session) \div RemainingTurns(turn_count)

\* the pacing block runs whatever settings.SMART_PACING_ENABLED is
M_PacedDelay_IgnoresSetting(smart_pacing_enabled, turn_count, elapsed_total_session) ==
    IF /\ 1 <= turn_count /\ turn_count <= PACING_END_TURN
       /\ Seconds(TARGET_DURATION) - elapsed_total_session > 0
    THEN MaxOf(0, CalculatedDelay(turn_count, elapsed_total_session))
    ELSE 0

\* final_delay as the pacing block leaves it (agent.py:402-411);
\* smart_pacing_enabled is settings.SMART_PACING_ENABLED, which the
\* environment can set
PacedDelay(smart_pacing_enabled, turn_count, elapsed_total_session) ==
    IF /\ smart_pacing_enabled
       /\ 1 <= turn_count /\ turn_count <= PACING_END_TURN
       /\ Seconds(TARGET_DURATION) - elapsed_total_session > 0
    THEN MaxOf(0, CalculatedDelay(turn_count, elapsed_total_session))
    ELSE 0

\* honeypot_agent.py run_agent paces turns 4 to 8 towards 63 s
\* (honeypot_agent.py:353-363)
HONEYPOT_PACING_START_TURN == 4
HONEYPOT_PACING_END_TURN == 8
TARGET_DURATION_AT_TURN_8 == 63
HoneypotPacedDelay(smart_pacing_enabled, turn_count, elapsed_total_session) ==
    IF /\ smart_pacing_enabled
       /\ HONEYPOT_PACING_START_TURN <= turn_count
       /\ turn_count <= HONEYPOT_PACING_END_TURN
       /\ Seconds(TARGET_DURATION_AT_TURN_8) - elapsed_total_session > 0
    THEN MaxOf(0, (Seconds(TARGET_DURATION_AT_TURN_8) - elapsed_total_session)
                     \div ((HONEYPOT_PACING_END_TURN - turn_count) + 1))
    ELSE 0

\* the delay is only kept from being negative
M_ClampDelay_NoCeiling(final_delay, elapsed_this_turn) == MaxOf(0, final_delay)

\* SAFETY: never exceed 24 s total per turn (agent.py:413-416)
ClampDelay(final_delay, elapsed_this_turn) ==
    MaxOf(0, MinOf(final_delay, Seconds(MaxTurnSeconds) - elapsed_this_turn))

\* how long a generator call takes to return or raise: whole seconds up to
\* MaxLatency, which lies beyond the budget
Latencies == {Seconds(n) : n \in 0..MaxLatency}
\* the second call of a pair returns at once or takes the longest
EndLatencies == {0, Seconds(MaxLatency)}
\* session.elapsed_seconds() when the turn starts
SessionAges == {Seconds(n * AgeStep) : n \in 0..MaxAgeSteps}

\* A turn of run_agent under the clock: the module whose run_agent it is
\* (agent.py, or honeypot_agent.py with its own pacing window), the setting
\* SMART_PACING_ENABLED, the number of the turn, the age of the session, and
\* what the two calls of the gather take.  The first turn creates the
\* session (agent.py:317), so its session has age 0.  calls holds the times
\* at which generator calls were issued: both at the gather.
ClockedTurns ==
    {c \in [fn : {"run_agent"}, module : {"agent", "honeypot_agent"},
            smart_pacing : BOOLEAN, pc : {"gather"}, turn_count : 1..MaxPacingTurn,
            session_age : SessionAges, reply_latency : Latencies,
            intel_latency : EndLatencies, now : {0}, timed_out : {FALSE},
            elapsed_this_turn : {0}, elapsed_total_session : {0},
            calculated_delay : {0}, final_delay : {0}, calls : {<<0, 0>>}] :
        c.turn_count = 1 => c.session_age = 0}

\* A strategy agent of main.py under the clock: what its two generator calls
\* do and how long each takes.  The gather of analyze_message has no timeout
\* (main.py:1472-1477) and neither have the calls (main.py:964-969, 1002-1007).
ClockedAgents ==
    [fn : {"strategy_agent"}, pc : {"structured"}, out : GeneratorOutcomes,
     req : MainRequests, structured_latency : Latencies, raw_latency : EndLatencies,
     now : {0}, via : {"none"}, calls : {<<0>>}]

InitClock == InitAgent /\ InitMain /\ call \in ClockedTurns \cup ClockedAgents

\* run_agent from the end of the gather to the pacing sleep or, when no sleep
\* is due, to its return (agent.py:351-420)
AfterGather(c, now, timed_out) ==
    LET elapsed_total_session == c.session_age + now
        paced == IF c.module = "agent"
                 THEN PacedDelay(c.smart_pacing, c.turn_count, elapsed_total_session)
                 ELSE HoneypotPacedDelay(c.smart_pacing, c.turn_count,
                                         elapsed_total_session)
        final_delay == ClampDelay(paced, now)
    IN [c EXCEPT !.now = now, !.timed_out = timed_out,
                 !.elapsed_this_turn = now,
                 !.elapsed_total_session = elapsed_total_session,
                 !.calculated_delay = paced,
                 !.final_delay = final_delay,
                 !.pc = IF final_delay > MinSleep THEN "sleep" ELSE "returned"]

\* both calls of the gather have returned or raised within the budget
GatherReturns ==
    /\ call.fn = "run_agent" /\ call.pc = "gather"
    /\ MaxOf(call.reply_latency, call.intel_latency) <= Seconds(LLM_TIMEOUT)
    /\ call' = AfterGather(call, MaxOf(call.reply_latency, call.intel_latency), FALSE)
    /\ UNCHANGED <<agentVars, mainVars>>

\* wait_for cancels the gather when the budget has elapsed (agent.py:349-355)
GatherTimesOut ==
    /\ call.fn = "run_agent" /\ call.pc = "gather"
    /\ MaxOf(call.reply_latency, call.intel_latency) >= Seconds(LLM_TIMEOUT)
    /\ call' = AfterGather(call, Seconds(LLM_TIMEOUT), TRUE)
    /\ UNCHANGED <<agentVars, mainVars>>

\* asyncio.sleep(final_delay) ends; run_agent returns (agent.py:420-464)
SleepEnds ==
    /\ call.fn = "run_agent" /\ call.pc = "sleep"
    /\ call' = [call EXCEPT !.now = @ + call.final_delay, !.pc = "returned"]
    /\ UNCHANGED <<agentVars, mainVars>>

\* the structured call of ATTEMPT 1 ends; the agent returns its result or
\* goes on to issue the raw call of ATTEMPT 2 (main.py:963-1019)
StructuredCallEnds ==
    /\ call.fn = "strategy_agent" /\ call.pc = "structured"
    /\ LET now == call.structured_latency
           tier1 == StructuredTier(call.out.structured, Context(call.req))
       IN call' = IF tier1.returned
                  THEN [call EXCEPT !.now = now, !.pc = "returned", !.via = "structured"]
                  ELSE [call EXCEPT !.now = now, !.pc = "raw",
                                    !.calls = Append(@, now)]
    /\ UNCHANGED <<agentVars, mainVars>>

\* the raw call of ATTEMPT 2 ends; the agent returns (main.py:1019-1127)
RawCallEnds ==
    /\ call.fn = "strategy_agent" /\ call.pc = "raw"
    /\ \E pick \in SmartFallbackOptions(PersonaNames[1]) :
          call' = [call EXCEPT
                      !.now = @ + call.raw_latency, !.pc = "returned",
                      !.via = run_single_agent(PersonaNames[1], TRUE, call.out.structured,
                                               call.out.raw, pick,
                                               Context(call.req)).via]
    /\ UNCHANGED <<agentVars, mainVars>>

NextClock ==
    \/ GatherReturns
    \/ GatherTimesOut
    \/ SleepEnds
    \/ StructuredCallEnds
    \/ RawCallEnds

SpecClock == InitClock /\ [][NextClock]_vars

\* ------------------------------------------------ the clock of one session
\* The turns of one session of agent.py, one after another, with smart
\* pacing enabled.  elapsed is session.elapsed_seconds() at the end of the
\* last turn; fired says that this turn created the delivery (agent.py:459).
\* The session stops being followed once its delivery has been created.
NoPacedSession ==
    [fn |-> "session", turn_count |-> 0, elapsed |-> 0, gaps |-> 0, raised |-> FALSE,
     raised_turns |-> 0, final_delay |-> 0, fired |-> FALSE]

InitPaced == InitAgent /\ InitMain /\ call = NoPacedSession

\* what the two generator calls of a turn take together: they return at
\* once, or one of them has not returned when the budget elapses
GenerationTimes == {0, Seconds(LLM_TIMEOUT)}

\* the turn of the session as a turn under the clock
TurnOfSession(turn_count, session_age, generation_time) ==
    [fn |-> "run_agent", module |-> "agent", smart_pacing |-> TRUE, pc |-> "gather",
     turn_count |-> turn_count, session_age |-> session_age,
     reply_latency |-> generation_time, intel_latency |-> 0, now |-> 0,
     timed_out |-> FALSE, elapsed_this_turn |-> 0, elapsed_total_session |-> 0,
     calculated_delay |-> 0, final_delay |-> 0, calls |-> <<0, 0>>]

\* One turn of the session, from the request to the response.  gap is the
\* time since the last turn ended (the first turn creates the session, so
\* nothing precedes it); intel_none says that the structured intel call
\* returned None within the budget, so that run_agent raises at agent.py:384,
\* before the pacing block.
PacedTurn(generation_time, gap, intel_none) ==
    /\ call.fn = "session" /\ ~call.fired
    /\ call.turn_count < MaxPacedTurns
    /\ gap > 0 => call.turn_count >= 1 /\ call.gaps < MaxGaps
    /\ intel_none => generation_time < Seconds(LLM_TIMEOUT)
    /\ LET turn_count == call.turn_count + 1
           session_age == call.elapsed + gap
           c == AfterGather(TurnOfSession(turn_count, session_age, generation_time),
                            generation_time,
                            generation_time >= Seconds(LLM_TIMEOUT))
           slept == IF c.pc = "sleep" THEN c.final_delay ELSE 0
       IN call' = IF intel_none
                  THEN [call EXCEPT !.turn_count = turn_count,
                                    !.elapsed = session_age + generation_time,
                                    !.gaps = IF gap > 0 THEN @ + 1 ELSE @,
                                    !.raised = TRUE, !.raised_turns = @ + 1,
                                    !.final_delay = 0]
                  ELSE [call EXCEPT !.turn_count = turn_count,
                                    !.elapsed = session_age + generation_time + slept,
                                    !.gaps = IF gap > 0 THEN @ + 1 ELSE @,
                                    !.raised = FALSE,
                                    !.final_delay = c.final_delay,
                                    !.fired = ShouldSend(turn_count)]
    /\ UNCHANGED <<agentVars, mainVars>>

NextPaced ==
    \E generation_time \in GenerationTimes, gap \in {0, Seconds(GapSeconds)},
       intel_none \in BOOLEAN :
        PacedTurn(generation_time, gap, intel_none)

SpecPaced == InitPaced /\ [][NextPaced]_vars

\* ------------------------------------------- the store under two sessions
\* The SessionStore singleton (session_store.py:41-63) with its dict, its
\* lock and the SessionState objects it has created, and the turns of
\* run_agent that use it, for two session ids.  heap holds the objects in
\* the order of their creation; _store and a turn's session hold the index
\* of an object (0: none), so that two names for one object are told from
\* two equal objects.  _lock is the task inside "async with self._lock"
\* (0: nobody).  The bodies under the lock contain no await, so a store
\* call that finds the lock free acquires it, runs and releases it within
\* the step that makes the call; a call that finds it held waits.
StoreSessionIds == {"s1", "s2"}

\* SessionState(session_id=...) with its note log (session_store.py:15-25)
SessionObject(sid) == [state |-> SessionState(sid), agent_notes |-> <<>>]

\* SessionState.add_note (session_store.py:30-31)
AddNote(object, note) == [object EXCEPT !.agent_notes = Append(@, note)]

\* SessionState.get_agent_notes (session_store.py:33-38), the default
\* text abbreviated
DefaultNote == <<"i", "n", " ", "p", "r", "o", "g", "r", "e", "s", "s">>
GetAgentNotes(object) ==
    IF object.agent_notes # <<>> THEN object.agent_notes[Len(object.agent_notes)]
    ELSE DefaultNote

IdleStoreTurn ==
    [pc |-> "idle", sid |-> "none", session |-> 0, req |-> NoRequest,
     intel_result |-> NoIntelResult, agent_note |-> <<>>]
NoStoreTurn == [sid |-> "none", turn |-> 0, agent_note |-> <<>>, raised |-> FALSE]
EmptyStore ==
    [fn |-> "store", _store |-> [sid \in StoreSessionIds |-> 0], heap |-> <<>>,
     _lock |-> 0, turn |-> [t \in TaskIds |-> IdleStoreTurn], requests |-> 0,
     last |-> NoStoreTurn, got |-> 0]

InitStore == InitAgent /\ InitMain /\ call = EmptyStore

\* the object is created anew on every call
M_StoreGetOrCreate_AlwaysCreates(c, t, sid) ==
    [_store |-> [c._store EXCEPT ![sid] = Len(c.heap) + 1],
     heap |-> Append(c.heap, SessionObject(sid)),
     session |-> Len(c.heap) + 1,
     _lock |-> 0]

\* the lock is not released when the call returns
M_StoreGetOrCreate_KeepsLock(c, t, sid) ==
    IF c._store[sid] = 0
    THEN [_store |-> [c._store EXCEPT ![sid] = Len(c.heap) + 1],
          heap |-> Append(c.heap, SessionObject(sid)),
          session |-> Len(c.heap) + 1,
          _lock |-> t]
    ELSE [_store |-> c._store, heap |-> c.heap, session |-> c._store[sid], _lock |-> t]

\* SessionStore.get_or_create called by task t (session_store.py:48-52):
\* the dict, the objects, the object returned and the lock as the call
\* leaves them
StoreGetOrCreate(c, t, sid) ==
    IF c._store[sid] = 0
    THEN [_store |-> [c._store EXCEPT ![sid] = Len(c.heap) + 1],
          heap |-> Append(c.heap, SessionObject(sid)),
          session |-> Len(c.heap) + 1,
          _lock |-> 0]
    ELSE [_store |-> c._store, heap |-> c.heap, session |-> c._store[sid], _lock |-> 0]

\* the object is stored under every session id
M_StoreUpdate_EveryId(c, session) == [sid \in StoreSessionIds |-> session]

\* SessionStore.update (session_store.py:57-59): the dict as the call leaves it
StoreUpdate(c, session) ==
    [c._store EXCEPT ![c.heap[session].state.session_id] = session]

\* what the intel call of a turn does: it returns an IntelResponse with a
\* note, one without a note, or None
LlmNote == <<"l", "l", "m">>
FallbackNote == <<"r", "e", "g", "e", "x">>
StoreIntelOutcomes ==
    {[kind |-> "value", agent_note |-> LlmNote,
      value |-> [IntelResponse(TRUE, "phishing", 90) EXCEPT !.phone_numbers = <<Phone91>>]],
     [kind |-> "value", agent_note |-> <<>>, value |-> IntelResponse(FALSE, "unknown", 30)],
     [kind |-> "none", agent_note |-> <<>>, value |-> NoIntelResult]}

\* a turn request for sid arrives and is handed to a free task, which is
\* about to call get_or_create (routes.py:53, agent.py:317)
StoreTurnStart(sid, req) ==
    /\ call.fn = "store" /\ call.requests < MaxStoreRequests
    /\ \E t \in TaskIds :
          /\ call.turn[t].pc = "idle"
          /\ \A u \in TaskIds : u < t => call.turn[u].pc # "idle"
          /\ call' = [call EXCEPT !.requests = @ + 1,
                         !.turn[t] = [IdleStoreTurn EXCEPT !.pc = "get_or_create",
                                                           !.sid = sid, !.req = req]]
    /\ UNCHANGED <<agentVars, mainVars>>

\* run_agent from get_or_create to the await of the two LLM calls
\* (agent.py:317-350)
StoreTurnBegin(t) ==
    /\ call.fn = "store" /\ call.turn[t].pc = "get_or_create"
    /\ call._lock = 0
    /\ LET r == StoreGetOrCreate(call, t, call.turn[t].sid) IN
       call' = [call EXCEPT
                   !._store = r._store,
                   !.heap = [r.heap EXCEPT ![r.session].state = TurnStartSession(@)],
                   !._lock = r._lock,
                   !.turn[t] = [@ EXCEPT !.pc = "gather", !.session = r.session]]
    /\ UNCHANGED <<agentVars, mainVars>>

\* run_agent from Step 5 to its return (agent.py:422-464,
\* honeypot_agent.py:374-405): the results are written to the session
\* object, the note is added and the store is updated
StoreTurnFinish(c, t, intel_result, agent_note) ==
    LET session == c.turn[t].session
        merged_intel == UnionIntel(c.turn[t].req.regex_intel, intel_result)
        note == IF Strip(agent_note) # <<>> THEN Strip(agent_note) ELSE FallbackNote
        heap == [c.heap EXCEPT ![session] =
                    AddNote([@ EXCEPT !.state = PersistSession(@, intel_result,
                                                               merged_intel)], note)]
        written == [c EXCEPT !.heap = heap]
    IN [written EXCEPT
           !._store = StoreUpdate(written, session),
           !.turn[t] = IdleStoreTurn,
           !.last = [sid |-> c.turn[t].sid, turn |-> heap[session].state.turn_count,
                     agent_note |-> note, raised |-> FALSE]]

\* the gather returns; run_agent runs on to the pacing sleep or, when no
\* sleep is due, to its return; when the intel call returned None it raises
\* (agent.py:384)
StoreGatherDone(t, out, sleeps) ==
    /\ call.fn = "store" /\ call.turn[t].pc = "gather"
    /\ IF out.kind = "none"
       THEN /\ ~sleeps
            /\ call' = [call EXCEPT
                   !.turn[t] = IdleStoreTurn,
                   !.last = [sid |-> call.turn[t].sid,
                             turn |-> call.heap[call.turn[t].session].state.turn_count,
                             agent_note |-> <<>>, raised |-> TRUE]]
       ELSE IF sleeps
       THEN call' = [call EXCEPT !.turn[t] = [@ EXCEPT !.pc = "sleep",
                                                        !.intel_result = out.value,
                                                        !.agent_note = out.agent_note]]
       ELSE /\ call._lock = 0
            /\ call' = StoreTurnFinish(call, t, out.value, out.agent_note)
    /\ UNCHANGED <<agentVars, mainVars>>

\* the pacing sleep ends (agent.py:420)
StoreWakeUp(t) ==
    /\ call.fn = "store" /\ call.turn[t].pc = "sleep"
    /\ call._lock = 0
    /\ call' = StoreTurnFinish(call, t, call.turn[t].intel_result, call.turn[t].agent_note)
    /\ UNCHANGED <<agentVars, mainVars>>

\* POST /session/{id}/callback (routes.py:89-101) whose POST is accepted:
\* SessionStore.get needs no lock, and send_callback sets the flag of the
\* object it was given (callback.py:60-63)
StoreTriggerCallback(sid) ==
    /\ call.fn = "store" /\ call._store[sid] # 0
    /\ ~call.heap[call._store[sid]].state.callback_sent
    /\ call' = [call EXCEPT !.got = call._store[sid],
                            !.heap[call._store[sid]].state.callback_sent = TRUE]
    /\ UNCHANGED <<agentVars, mainVars>>

NextStore ==
    \/ \E sid \in StoreSessionIds, req \in Requests : StoreTurnStart(sid, req)
    \/ \E t \in TaskIds : StoreTurnBegin(t)
    \/ \E t \in TaskIds, out \in StoreIntelOutcomes, sleeps \in BOOLEAN :
          StoreGatherDone(t, out, sleeps)
    \/ \E t \in TaskIds : StoreWakeUp(t)
    \/ \E sid \in StoreSessionIds : StoreTriggerCallback(sid)

SpecStore == InitStore /\ [][NextStore]_vars

\* ------------------------------------------------------------------- claims
\* the POSTs issued for a session by deliveries that run_agent started
TurnPosts(s) == posts[s] - manual[s]

\* C1: for every session, whatever the turns and the outcome of each POST, the
\* deliveries started by run_agent issue at most one HTTP POST.
C1_DispatchAtMostOnce == \A s \in SessionIds : TurnPosts(s) <= 1

\* C2: for every session and every step, each entity set of session.intel
\* after the step is a superset of the same set before it (phone numbers
\* compared by their trailing 10 digits, other values by the lower-cased
\* literal).
Keys(items) == {Lower(Strip(items[i])) : i \in DOMAIN items}
PhoneKeys(items) == {NormalizePhone(items[i]) : i \in DOMAIN items}
IntelSubset(a, b) ==
    /\ PhoneKeys(a.phoneNumbers) \subseteq PhoneKeys(b.phoneNumbers)
    /\ Keys(a.bankAccounts) \subseteq Keys(b.bankAccounts)
    /\ Keys(a.upiIds) \subseteq Keys(b.upiIds)
    /\ Keys(a.phishingLinks) \subseteq Keys(b.phishingLinks)
    /\ Keys(a.emailAddresses) \subseteq Keys(b.emailAddresses)
    /\ Keys(a.caseIds) \subseteq Keys(b.caseIds)
    /\ Keys(a.policyNumbers) \subseteq Keys(b.policyNumbers)
    /\ Keys(a.orderNumbers) \subseteq Keys(b.orderNumbers)
    /\ Keys(a.suspiciousKeywords) \subseteq Keys(b.suspiciousKeywords)

C2_IntelNeverShrinks ==
    [][\A s \in SessionIds :
          store[s] # NoSession => IntelSubset(store[s].intel, store'[s].intel)]_vars

\* C3: every answered turn request has status "success" and a non-empty reply,
\* whatever the generator calls and the delivery did.
C3_ReplyNeverEmpty ==
    lastDone.pc = "done" =>
        /\ lastDone.response.status = "success"
        /\ lastDone.response.reply # <<>>

\* C4: when two overlapping turns of one session have both finished, the turn
\* count has grown by exactly two and session.intel contains every entity that
\* either turn merged.
Overlapped(a, b) ==
    /\ a.pc = "done" /\ b.pc = "done" /\ a.sid = b.sid
    /\ a.overlap = b.turn \/ b.overlap = a.turn

C4_NoLostUpdate ==
    [][(lastDone' # lastDone /\ Overlapped(lastDone, lastDone')
        /\ \A t \in TaskIds : task'[t].pc = "idle")
       => /\ store'[lastDone.sid].turn_count = MaxOf(lastDone.turn, lastDone'.turn)
          /\ IntelSubset(lastDone.merged_intel, store'[lastDone.sid].intel)
          /\ IntelSubset(lastDone'.merged_intel, store'[lastDone.sid].intel)]_vars

\* C5: a session's turn_count is 0 until its first turn and always equals the
\* number of turn requests received for it, failed and timed-out turns
\* included; so it grows by exactly one per turn and never decreases.
TurnCount(s) == IF store[s] = NoSession THEN 0 ELSE store[s].turn_count

C5_TurnCountCountsTurns == \A s \in SessionIds : TurnCount(s) = received[s]

\* a turn that raised has been answered and is counted like the ones before it
C5_Witness ==
    /\ lastDone.pc = "done" /\ lastDone.raised
    /\ lastDone.turn >= 2
    /\ TurnCount(lastDone.sid) = lastDone.turn

\* C6: when the classification is the value the generator reported on the
\* previous turn and the generator reports "unknown" on this turn, the
\* classification is not overwritten.
C6_UnknownNeverOverwrites ==
    [][(/\ lastDone.pc = "done" /\ ~lastDone.raised
        /\ lastDone.reported \notin {"none", "unknown"}
        /\ store[lastDone.sid].scam_type = lastDone.reported
        /\ lastDone' # lastDone /\ lastDone'.sid = lastDone.sid
        /\ ~lastDone'.raised /\ lastDone'.reported = "unknown")
       => store'[lastDone.sid].scam_type = lastDone.reported]_vars

\* C7: a POST that raises or returns a non-success status leaves callback_sent
\* and the answered turn's reply as they were, so the flag is false as long as
\* no POST was accepted; and a manual trigger made then issues a new POST.
PostFails(s) ==
    /\ \E d \in deliveries : d.sid = s /\ d.pc = "posting" /\ d \notin deliveries'
    /\ accepted'[s] = accepted[s]

C7_FailureKeepsFlagFalse ==
    [][\A s \in SessionIds :
          /\ PostFails(s) =>
                /\ store'[s].callback_sent = store[s].callback_sent
                /\ lastDone' = lastDone
          /\ (store'[s] # NoSession /\ accepted'[s] = 0) => ~store'[s].callback_sent
          /\ manual'[s] # manual[s] =>
                /\ posts'[s] = posts[s] + 1
                /\ \E d \in deliveries' \ deliveries :
                      d.sid = s /\ d.origin = 0 /\ d.pc = "posting" /\ d.seq = posts'[s]]_vars

\* the POST of a turn's delivery failed, the turn had been answered, and a
\* manual trigger has issued a second POST
C7_Witness ==
    \E s \in SessionIds :
        /\ posts[s] = 2 /\ manual[s] = 1 /\ accepted[s] = 0
        /\ ~store[s].callback_sent
        /\ deliveries = {[sid |-> s, origin |-> 0, seq |-> 2, pc |-> "posting"]}
        /\ lastDone.pc = "done" /\ lastDone.response.reply # <<>>

\* C8: callback_sent is false at creation, is never reset from true to false,
\* and becomes true only in a step in which a POST for the session is accepted.
C8_FlagOneWay ==
    [][\A s \in SessionIds :
          IF store[s] = NoSession
          THEN store'[s] # NoSession => ~store'[s].callback_sent
          ELSE /\ store[s].callback_sent => store'[s].callback_sent
               /\ (~store[s].callback_sent /\ store'[s].callback_sent)
                     => accepted'[s] = accepted[s] + 1]_vars

\* the flag is set, and a later turn has been processed with it set
C8_Witness ==
    \E s \in SessionIds :
        /\ store[s] # NoSession /\ store[s].callback_sent
        /\ accepted[s] = 1
        /\ lastDone.pc = "done" /\ lastDone.turn = SEND_CALLBACK_AFTER_TURN + 1

\* C9: the endpoint accepts a session's payload exactly once: never twice, and,
\* once the session has reached the threshold, nothing is pending any more and
\* every POST issued was accepted, not zero times.
Quiet(s) ==
    /\ \A t \in TaskIds : ~(InFlight(t) /\ task[t].sid = s)
    /\ \A d \in deliveries : d.sid # s

C9_PostedExactlyOnce ==
    \A s \in SessionIds :
        /\ accepted[s] <= 1
        /\ (Quiet(s) /\ TurnCount(s) >= SEND_CALLBACK_AFTER_TURN /\ posts[s] = accepted[s])
              => accepted[s] = 1

\* C10: while a delivery POST that a turn triggered is in flight, that turn has
\* been answered: neither a turn of run_agent nor a request of main.py's
\* analyze_message waits for the POST to complete.
C10_DeliveryDetached ==
    /\ \A d \in deliveries :
          (d.origin > 0 /\ d.pc = "posting") =>
             \A t \in TaskIds :
                ~(InFlight(t) /\ task[t].sid = d.sid /\ task[t].turn = d.origin)
    /\ handler.pc = "post" => handler.response.status = "success"

\* C11: in every step that ends the generation of a turn, a strategy that
\* completed successfully keeps its result whatever the other strategy did:
\* the reply of the reply strategy is the reply the turn carries on with, and
\* the classification of the intel strategy is the one the turn persists.
CarriedReply(t) ==
    IF task'[t].pc = "sleep" THEN task'[t].reply_text ELSE lastDone'.response.reply

C11_FailureStaysLocal ==
    [][\A t \in TaskIds, out \in LlmOutcomes, sleeps \in BOOLEAN :
          LlmDone(t, out, sleeps) =>
             /\ out.reply.kind = "text" =>
                   CarriedReply(t) = RunReplyAgent(out.reply.content)
             /\ (out.intel.kind = "value" /\ ~sleeps) =>
                   store'[task[t].sid].scam_type = out.intel.value.scam_type]_vars

\* C12: every call of run_single_agent, whatever its two generator calls do,
\* ends in a return statement and not in an exception, and what it returns is
\* a candidate for its persona: a result that carries a response.
C12_OneCandidateNeverRaises ==
    (call.fn = "run_single_agent" /\ call.done) =>
        /\ call.agent_result.via # "raise"
        /\ call.agent_result.agent = call.persona_name
        /\ call.agent_result.has_response

\* the key under which deduplicate_intelligence keeps an item of a field
MainKey(field, item) ==
    CASE field = "phoneNumbers" -> normalize_phone_number(item)
      [] field \in {"upiIds", "emailAddresses"} -> BaseOf(item)
      [] OTHER -> item
StoredKeys(stored, field) ==
    {MainKey(field, item) : item \in KnownItems(stored, field)}

\* C13: once analyze_message has accumulated the intelligence of a turn, every
\* entity that a valid candidate of the turn extracted, the winner's and the
\* others', is in the session's accumulated intelligence (under the form that
\* the deduplication keeps of it).
C13_EveryCandidateEntityKept ==
    (handler.pc \in {"post", "done"} /\ ValidResults(handler.agent_results) # <<>>) =>
        \A i \in DOMAIN handler.agent_results :
            handler.agent_results[i].has_response =>
                \A k \in DOMAIN IntelFields :
                    \A item \in ItemsOf(handler.agent_results[i].response
                                            .extractedIntelligence[IntelFields[k]]) :
                        MainKey(IntelFields[k], item) \in
                            StoredKeys(session_intelligence[handler.sid], IntelFields[k])

\* the positions of the valid candidates of the turn that have maximal score
TopCandidates ==
    {i \in DOMAIN handler.agent_results :
        /\ handler.agent_results[i].has_response
        /\ \A j \in DOMAIN handler.agent_results :
              handler.agent_results[j].has_response =>
                 handler.agent_results[j].score <= handler.agent_results[i].score}

C15_DangerWordScoresLower ==
    (call.fn = "score_response" /\ call.done) => call.score_with_word < call.score

\* C16: in every session's accumulated intelligence, whether the entities came
\* from the extraction or from the generator, no bank account's trailing 10
\* digits are the normalized form of a stored phone number, and no value is
\* both a UPI id and an email address.
C16_CrossCategoryExclusion ==
    \A s \in SessionIds :
        store[s] # NoSession =>
            /\ \A b \in ItemsOf(store[s].intel.bankAccounts),
                  ph \in ItemsOf(store[s].intel.phoneNumbers) :
                  LastN(OnlyDigits(b), 10) # NormalizePhone(ph)
            /\ ItemsOf(store[s].intel.upiIds) \cap ItemsOf(store[s].intel.emailAddresses) = {}

\* the literals of a list that share a trailing-10-digit form
SameForm(phones, form) ==
    {phones[i] : i \in {j \in DOMAIN phones : NormalizePhone(phones[j]) = form}}

\* C19: for every list of phone literals, _dedupe_phones returns one entry for
\* each trailing-10-digit form that occurs in the list and none for any
\* other, the entry of a form is at least as long as every (trimmed) literal
\* of the list that has the form, and a second application changes nothing.
C19_DedupePhonesKeepsLongest ==
    (call.fn = "_dedupe_phones" /\ call.done) =>
        /\ \A p \in ItemsOf(call.phones) :
              Cardinality({i \in DOMAIN call.once :
                              NormalizePhone(call.once[i]) = NormalizePhone(p)}) = 1
        /\ \A i \in DOMAIN call.once :
              /\ SameForm(call.phones, NormalizePhone(call.once[i])) # {}
              /\ \A p \in SameForm(call.phones, NormalizePhone(call.once[i])) :
                    Len(Strip(p)) <= Len(call.once[i])
        /\ call.twice = call.once

\* C17: for every address token local@domain in the text given to
\* extract_intelligence: when the domain ends in a TLD suffix the token is
\* among the email addresses and no UPI id is the token or a part of it; when
\* it does not, the token is among the UPI ids and not among the email
\* addresses.
C17_AddressTokenClassified ==
    (call.fn = "extract_intelligence" /\ call.done /\ call.token # NoToken) =>
        LET token == TokenText(call.token) IN
        IF _has_tld(Lower(call.token.domain))
        THEN /\ token \in ItemsOf(call.intel.emailAddresses)
             /\ \A u \in ItemsOf(call.intel.upiIds) : ~Contains(token, u)
        ELSE /\ token \in ItemsOf(call.intel.upiIds)
             /\ token \notin ItemsOf(call.intel.emailAddresses)

\* the trailing-10-digit forms of the phones extract_intelligence returned
ReturnedPhoneForms ==
    {NormalizePhone(ph) : ph \in ItemsOf(call.intel.phoneNumbers)}

\* C18: for every input of extract_intelligence no returned bank account has
\* trailing 10 digits that are the normalized form of a returned phone, and
\* every text that is a run of 9 to 18 digits, other than the 13-digit runs the
\* extractor takes for timestamps, and that does not end in a detected phone
\* is returned as a bank account.
C18_PhoneNeverBankAccount ==
    (call.fn = "extract_intelligence" /\ call.done) =>
        /\ \A b \in ItemsOf(call.intel.bankAccounts) :
              LastN(OnlyDigits(b), 10) \notin ReturnedPhoneForms
        /\ \A t \in ItemsOf(call.texts) :
              (/\ OnlyDigits(t) = t
               /\ Len(t) >= 9 /\ Len(t) <= 18 /\ Len(t) # 13
               /\ LastN(t, 10) \notin ReturnedPhoneForms)
                 => t \in ItemsOf(call.intel.bankAccounts)

\* a 16-digit account next to a separate 10-digit phone: the account is
\* returned as a bank account, the phone as a phone only
C18_Witness ==
    /\ call.fn = "extract_intelligence" /\ call.done
    /\ call.texts = <<Account16, Phone10>>
    /\ call.intel.bankAccounts = <<Account16>>
    /\ call.intel.phoneNumbers = <<Phone10>>

\* the payload of the POST that a step issues for delivery d: send_callback
\* builds it from the session right before the POST (callback.py:46-58)
PostedPayload(d) == BuildFinalPayload(store[d.sid])

\* C20: the payload that send_callback posts carries the values the session
\* has when the POST is issued: its classification, its confidence level
\* once a turn has assigned one, its entity sets and its message count.
C20_PayloadCarriesSession ==
    [][\A d \in deliveries' :
          (d.pc = "posting" /\ d \notin deliveries) =>
             LET session == store[d.sid] IN
             /\ PostedPayload(d).sessionId = session.session_id
             /\ PostedPayload(d).scamDetected = session.scam_detected
             /\ PostedPayload(d).scamType = session.scam_type
             /\ PostedPayload(d).extractedIntelligence = session.intel
             /\ PostedPayload(d).totalMessagesExchanged = session.total_messages
             /\ session.confidence_level >= 0 =>
                   PostedPayload(d).confidenceLevel = session.confidence_level]_vars

\* C21: every turn of run_agent, whatever the two generator calls take, has
\* ended its generation at most 25 s after the turn started, sleeps only when
\* the sleep ends at most 24 s after the turn started, and returns before the
\* caller's 30 s have passed.
C21_TurnWithinCallerTimeout ==
    call.fn = "run_agent" =>
        /\ call.pc # "gather" => call.elapsed_this_turn <= Seconds(LLM_TIMEOUT)
        /\ call.pc = "sleep" =>
              call.now + call.final_delay <= Seconds(MaxTurnSeconds)
        /\ (call.pc = "returned" /\ call.final_delay > MinSleep) =>
              call.now <= Seconds(MaxTurnSeconds)
        /\ call.pc = "returned" => call.now < Seconds(CallerTimeout)

\* a first turn whose reply call never returns: the gather was abandoned at
\* 25 s, no sleep was added although the session is young, and the turn has
\* returned
C21_Witness ==
    /\ call.fn = "run_agent" /\ call.pc = "returned"
    /\ call.turn_count = 1
    /\ call.reply_latency > Seconds(LLM_TIMEOUT)
    /\ call.timed_out
    /\ call.calculated_delay > MinSleep
    /\ call.now = Seconds(LLM_TIMEOUT)

\* the turns t..PACING_END_TURN that remain in the pacing window at turn t
TurnsLeftInWindow(t) == Cardinality(t..PACING_END_TURN)

C28_NoCallAfterBudget ==
    /\ call.fn \in {"run_agent", "strategy_agent"} =>
          \A i \in DOMAIN call.calls : call.calls[i] < Seconds(LLM_TIMEOUT)
    /\ (/\ call.fn = "strategy_agent" /\ call.pc = "returned"
        /\ call.structured_latency > Seconds(LLM_TIMEOUT)) =>
          call.via \in {"fallback", "except"}

\* C23: a step that answers an inspection leaves the store and everything
\* else of the service as it was, and for an id the store does not know the
\* answer is not-found and the store still has no entry for the id.
C23_InspectionReadsOnly ==
    [][view' # view =>
          /\ UNCHANGED <<store, task, deliveries, received, posts, accepted, manual,
                         lastDone, mainVars>>
          /\ store[view'.session_id] = NoSession =>
                /\ view'.status = 404
                /\ store'[view'.session_id] = NoSession
          /\ store[view'.session_id] # NoSession =>
                /\ view'.status = 200
                /\ view'.turn_count = store'[view'.session_id].turn_count]_vars

\* an id that has had no turn was inspected: not-found, and still no session
C23_Witness ==
    /\ view.status = 404
    /\ view.session_id \in SessionIds
    /\ store[view.session_id] = NoSession

\* the POSTs of a session that are in flight
Posting(s) == {d \in deliveries : d.sid = s /\ d.pc = "posting"}

\* C24: for every session at most one delivery POST is in flight at a time,
\* whether turns or the manual trigger issued it, and the endpoint accepts at
\* most one POST.
C24_OneDeliveryAtATime ==
    \A s \in SessionIds :
        /\ Cardinality(Posting(s)) <= 1
        /\ accepted[s] <= 1

\* the POSTs of a session that have failed: issued, not accepted, not in flight
FailedPosts(s) == posts[s] - accepted[s] - Cardinality(Posting(s))

\* the delivery a step creates for session s
StartsDelivery(s) ==
    \E d \in deliveries' \ deliveries : d.sid = s /\ d.pc = "created"

\* C25: a turn never starts a delivery for a session that has a failed POST
\* behind it.
C25_NoAutomaticRetry ==
    [][\A s \in SessionIds : StartsDelivery(s) => FailedPosts(s) = 0]_vars

\* C26: a step that ends a turn of run_agent starts a delivery exactly when
\* the session's turn_count has reached SEND_CALLBACK_AFTER_TURN or MAX_TURNS
\* and callback_sent is false.
C26_DeliveryStartedAtThreshold ==
    [][lastDone' # lastDone =>
          (StartsDelivery(lastDone'.sid)
             <=> /\ \/ store'[lastDone'.sid].turn_count >= SEND_CALLBACK_AFTER_TURN
                    \/ store'[lastDone'.sid].turn_count >= MAX_TURNS
                 /\ ~store[lastDone'.sid].callback_sent)]_vars

\* the classification a turn carries on with after its generation
CarriedType(t) ==
    IF task'[t].pc = "sleep" THEN task'[t].intel_result.scam_type
    ELSE store'[task[t].sid].scam_type

\* C27: in a step in which the budget of the turn elapses, a strategy that
\* had completed keeps its result and a strategy that was pending gets its
\* fallback: the template reply, the keyword classification.
C27_TimeoutFailsPendingOnly ==
    [][\A t \in TaskIds, out \in LlmOutcomes, sleeps \in BOOLEAN :
          (LlmDone(t, out, sleeps) /\ out.timeout) =>
             /\ out.reply.kind = "text" =>
                   CarriedReply(t) = RunReplyAgent(out.reply.content)
             /\ out.reply.kind = "hang" =>
                   CarriedReply(t) = GenerateFallbackReply(store[task[t].sid].turn_count,
                                                           task[t].req.message)
             /\ out.intel.kind = "value" =>
                   CarriedType(t) = out.intel.value.scam_type
             /\ out.intel.kind = "hang" =>
                   CarriedType(t) = task[t].req.keyword_type]_vars

GeneratorCalls(attempts) == Len(SelectSeq(attempts, LAMBDA a : a \in {1, 2}))

\* C30: in run_single_agent the tiers run strictly in order: the attempts a
\* call entered are 1, then 2, then 3, without a gap or a repetition; tier 2
\* is entered only when the structured call raised, returned nothing or
\* returned a reply of at most 10 characters; tier 3 only when the raw call
\* also raised or gave no usable reply; a call that returns a tier's result
\* entered no later tier; and a call makes at most two generator calls
C30_TiersInOrder ==
    (call.fn = "run_single_agent" /\ call.done) =>
        LET attempts == call.agent_result.attempts
            via == call.agent_result.via
            structured == call.out.structured
            raw == call.out.raw
        IN /\ attempts \in {<<>>, <<1>>, <<1, 2>>, <<1, 2, 3>>}
           /\ Len(attempts) >= 2 =>
                 \/ structured.kind # "object"
                 \/ Len(structured.response.reply) <= 10
           /\ Len(attempts) >= 3 =>
                 \/ raw.kind = "raise"
                 \/ raw.kind = "json" /\ raw.response.reply = <<>>
                 \/ raw.kind = "text" /\ Len(raw.response.reply) <= 10
           /\ via = "structured" => attempts = <<1>>
           /\ via = "raw" => attempts = <<1, 2>>
           /\ via = "fallback" => attempts = <<1, 2, 3>>
           /\ GeneratorCalls(attempts) <= 2
C30_Witness ==
    /\ call.fn = "run_single_agent" /\ call.done
    /\ call.out.structured.kind = "object"
    /\ call.out.structured.response = ShortResponse
    /\ call.agent_result.via = "raw"
    /\ call.agent_result.attempts = <<1, 2>>
    /\ call.agent_result.response.reply = AskResponse.reply

\* a finished call of run_single_agent that called generate_smart_fallback:
\* it entered ATTEMPT 3, or its first statement raised into the except branch
CalledSmartFallback ==
    /\ call.fn = "run_single_agent" /\ call.done
    /\ \/ ~call.api_key
       \/ \E i \in DOMAIN call.agent_result.attempts : call.agent_result.attempts[i] = 3

\* C31: the template fallback never fails: every call of run_single_agent
\* that reaches generate_smart_fallback, for every persona, request and
\* language, gets from it a response with a non-empty reply, one of the
\* persona's canned replies, whose entities are exactly the known entities
\* it was handed
C31_TemplateFallbackNeverFails ==
    CalledSmartFallback =>
        /\ call.agent_result.has_response
        /\ call.agent_result.response.reply # <<>>
        /\ call.agent_result.response.reply \in SmartFallbackOptions(call.persona_name)
        /\ \A i \in DOMAIN IntelFields :
              ItemsOf(call.agent_result.response.extractedIntelligence[IntelFields[i]])
                 = KnownItems(call.req.known_intel, IntelFields[i])

\* C32: the reply the template fallback selects was not used verbatim
\* earlier in the session: generate_smart_fallback returns no reply that is
\* in the history it was called for, and _generate_fallback_reply returns on
\* a later turn no reply it returned on an earlier turn of the session
C32_FallbackReplyNotReused ==
    /\ CalledSmartFallback /\ call.agent_result.has_response =>
          \A k \in DOMAIN call.req.previous_replies :
              Lower(call.agent_result.response.reply) # Lower(call.req.previous_replies[k])
    /\ (call.fn = "_generate_fallback_reply" /\ call.done) =>
          call.reply # call.earlier_reply

\* the sleep a turn adds: final_delay when it is above half a second
\* (agent.py:418-420), else none
SleepAdded(c) == IF c.final_delay > MinSleep THEN c.final_delay ELSE 0

\* C33: on every turn of run_agent the generation time of the turn plus the
\* sleep added is at most the ceiling of 24 s, and the sleep is not negative
C33_TurnWithinCeiling ==
    (call.fn = "run_agent" /\ call.pc # "gather") =>
        /\ call.final_delay >= 0
        /\ call.elapsed_this_turn + SleepAdded(call) <= Seconds(MaxTurnSeconds)

\* the turn's number lies outside the pacing window of its run_agent
OutsidePacingWindow(c) ==
    IF c.module = "agent" THEN c.turn_count > PACING_END_TURN
    ELSE c.turn_count < HONEYPOT_PACING_START_TURN \/ c.turn_count > HONEYPOT_PACING_END_TURN

\* C34: a turn whose number lies outside the pacing window, or that runs
\* with smart pacing disabled, adds no delay: its final_delay is 0 and it
\* returns at the moment its generation ended, however young the session
C34_NoDelayOutsideWindow ==
    (/\ call.fn = "run_agent" /\ call.pc # "gather"
     /\ ~call.smart_pacing \/ OutsidePacingWindow(call)) =>
        /\ call.final_delay = 0
        /\ call.pc = "returned"
        /\ call.now = call.elapsed_this_turn
\* turn 10 of a session of agent.py that is 26 s old, pacing enabled: it has
\* returned when its generation ended, after 3 s
C34_Witness ==
    /\ call.fn = "run_agent" /\ call.module = "agent" /\ call.smart_pacing
    /\ call.turn_count = PACING_END_TURN + 1
    /\ call.session_age = Seconds(AgeStep)
    /\ call.pc = "returned"
    /\ call.now = Seconds(3)
    /\ call.final_delay = 0

\* C35: when the delivery of a session of agent.py is created at the end of
\* turn 9, with pacing enabled and the turns processed one after another,
\* the session has lasted at least 180 s, whatever the turns' generation
\* took and whatever pauses the caller made
C35_DeliveryAfter180Seconds ==
    (call.fn = "session" /\ call.fired /\ call.turn_count = SEND_CALLBACK_AFTER_TURN) =>
        call.elapsed >= Seconds(180)

\* C36: a turn that is suspended in its pacing sleep is not inside the
\* store's lock, and while it sleeps the lock is free for the turns of other
\* sessions: whichever store call such a turn makes next, get_or_create or
\* update, does not wait (get takes no lock at all)
C36_SleepHoldsNoLock ==
    call.fn = "store" =>
        \A t \in TaskIds :
            call.turn[t].pc = "sleep" =>
                /\ call._lock # t
                /\ \A u \in TaskIds :
                      (call.turn[u].pc # "idle" /\ call.turn[u].sid # call.turn[t].sid)
                          => call._lock = 0
\* a turn of s1 sleeps while a turn of s2, which arrived later, has been
\* through get_or_create and awaits its LLM calls
C36_Witness ==
    /\ call.fn = "store"
    /\ call.turn[1].pc = "sleep" /\ call.turn[1].sid = "s1"
    /\ call.turn[2].pc = "gather" /\ call.turn[2].sid = "s2"
    /\ call.turn[1].session = 1 /\ call.turn[2].session = 2

\* the SessionState objects created for a session id
ObjectsOf(c, sid) == {i \in DOMAIN c.heap : c.heap[i].state.session_id = sid}

\* C37: under any interleaving of get_or_create calls there is at most one
\* SessionState per session id, every turn of the id holds that very object,
\* the object is created by the first call with empty intelligence, no note
\* and callback_sent false and with turn_count 0, to which the creating turn
\* adds itself, and no step removes or replaces a stored object
C37_OneStatePerSession ==
    [][call.fn = "store" =>
          \A sid \in StoreSessionIds :
              /\ Cardinality(ObjectsOf(call', sid)) <= 1
              /\ \A t \in TaskIds :
                    (call'.turn[t].sid = sid /\ call'.turn[t].session # 0) =>
                        call'.turn[t].session = call'._store[sid]
              /\ call._store[sid] # 0 => call'._store[sid] = call._store[sid]
              /\ (call._store[sid] = 0 /\ call'._store[sid] # 0) =>
                    LET object == call'.heap[call'._store[sid]] IN
                    /\ object.state.session_id = sid
                    /\ object.state.turn_count = 1
                    /\ object.state.intel = EmptyIntel
                    /\ ~object.state.callback_sent
                    /\ object.agent_notes = <<>>]_vars
\* two turns of s1 overlap: both hold the one object of s1, which counts both
C37_Witness ==
    /\ call.fn = "store"
    /\ call.turn[1].sid = "s1" /\ call.turn[2].sid = "s1"
    /\ call.turn[1].session = call._store["s1"]
    /\ call.turn[2].session = call._store["s1"]
    /\ call._store["s1"] # 0
    /\ call.heap[call._store["s1"]].state.turn_count = 2
    /\ Cardinality(ObjectsOf(call, "s1")) = 1

\* C38: every turn of run_agent appends exactly one note to the note log of
\* its session, leaving the earlier notes in place, and get_agent_notes
\* returns the note appended last; it returns the default text exactly while
\* the log is empty
C38_OneNotePerTurn ==
    [][call.fn = "store" =>
          /\ \A t \in TaskIds :
                (call.turn[t].pc \in {"gather", "sleep"} /\ call'.turn[t].pc = "idle") =>
                    LET before == call.heap[call.turn[t].session].agent_notes
                        after == call'.heap[call.turn[t].session].agent_notes
                    IN /\ Len(after) = Len(before) + 1
                       /\ SubSeq(after, 1, Len(before)) = before
                       /\ GetAgentNotes(call'.heap[call.turn[t].session])
                             = after[Len(after)]
                       /\ after[Len(after)] = call'.last.agent_note
          /\ \A i \in DOMAIN call'.heap :
                GetAgentNotes(call'.heap[i]) = DefaultNote
                    <=> call'.heap[i].agent_notes = <<>>]_vars

\* the session id whose turn task t runs in a step that changes the task
ActingSession(t) ==
    IF call.turn[t].pc = "idle" THEN call'.turn[t].sid ELSE call.turn[t].sid

\* C39: a step of a turn of one session id leaves every other session as it
\* was: the object stored for the other id is the same object, and its
\* turn_count, intelligence, classification, notes and callback_sent flag
\* are unchanged, however the turns of the two sessions interleave
C39_TurnTouchesOwnSessionOnly ==
    [][call.fn = "store" =>
          \A t \in TaskIds :
              call'.turn[t] # call.turn[t] =>
                  \A other \in StoreSessionIds \ {ActingSession(t)} :
                      /\ call'._store[other] = call._store[other]
                      /\ call._store[other] # 0 =>
                            call'.heap[call._store[other]]
                                = call.heap[call._store[other]]]_vars
\* a turn of s1 has finished and written a phone number and a note while a
\* turn of s2 is asleep; the session of s2 holds nothing yet, and its
\* delivery has been accepted
C39_Witness ==
    /\ call.fn = "store"
    /\ call.last.sid = "s1" /\ ~call.last.raised
    /\ call._store["s1"] # 0 /\ call._store["s2"] # 0
    /\ call.heap[call._store["s1"]].state.intel.phoneNumbers # <<>>
    /\ call.heap[call._store["s1"]].agent_notes # <<>>
    /\ ~call.heap[call._store["s1"]].state.callback_sent
    /\ \E u \in TaskIds : call.turn[u].sid = "s2" /\ call.turn[u].pc = "sleep"
    /\ call.heap[call._store["s2"]].state.intel = EmptyIntel
    /\ call.heap[call._store["s2"]].agent_notes = <<>>
    /\ call.heap[call._store["s2"]].state.callback_sent


====
